---------------------------- MODULE Spec2Model ----------------------------
(***************************************************************************)
(* The guardrail-and-repair pipeline of the medical-triage chat service    *)
(* (services/api): red-flag detection, the model invocation layer with its *)
(* JSON extraction / repair protocol, the quality gate, the guardrail      *)
(* policy and the POST /chat handler that composes them.                   *)
(*                                                                         *)
(* Texts (user messages, raw model outputs, rendered markdown) are TLA+    *)
(* strings and are processed character by character, as the Python code    *)
(* does.                                                                   *)
(***************************************************************************)
EXTENDS Integers, Sequences, FiniteSets, TLC

(***************************************************************************)
(* ------------------------------ strings -------------------------------- *)
(***************************************************************************)

\* Python's None where a string is expected.
None == "<None>"

\* Python's None where a list or an object is expected.
Null == [none |-> TRUE]

\* str[i] (1-based).
Chr(t, i) == SubSeq(t, i, i)

\* The characters str.strip() removes and the regex class \s matches.
Whitespace == {" ", "\t", "\n", "\r", "\f"}

\* str.lower() on one character (ASCII letters).
UpperLetters == "ABCDEFGHIJKLMNOPQRSTUVWXYZ"
LowerLetters == "abcdefghijklmnopqrstuvwxyz"
LowerMap == [c \in {Chr(UpperLetters, i) : i \in 1..26} |->
               Chr(LowerLetters, CHOOSE i \in 1..26 : Chr(UpperLetters, i) = c)]
LowerChar(c) == IF c \in DOMAIN LowerMap THEN LowerMap[c] ELSE c

RECURSIVE Lower(_)
\* str.lower()
Lower(t) == IF Len(t) = 0 THEN "" ELSE LowerChar(Chr(t, 1)) \o Lower(SubSeq(t, 2, Len(t)))

RECURSIVE SkipForward(_, _, _)
\* The first position from i on whose character is not in cs (Len(t) + 1 if none).
SkipForward(t, i, cs) ==
    IF i > Len(t) THEN i
    ELSE IF Chr(t, i) \in cs THEN SkipForward(t, i + 1, cs) ELSE i

RECURSIVE SkipBackward(_, _, _)
\* The last position up to i whose character is not in cs (0 if none).
SkipBackward(t, i, cs) ==
    IF i < 1 THEN 0
    ELSE IF Chr(t, i) \in cs THEN SkipBackward(t, i - 1, cs) ELSE i

\* str.strip()
Strip(t) ==
    LET lo == SkipForward(t, 1, Whitespace)
    IN  IF lo > Len(t) THEN "" ELSE SubSeq(t, lo, SkipBackward(t, Len(t), Whitespace))

\* Whether k occurs in t at position i.
OccursAt(k, t, i) == i >= 1 /\ i + Len(k) - 1 <= Len(t) /\ SubSeq(t, i, i + Len(k) - 1) = k

\* Python's (k in t) for strings.
Contains(t, k) == \E i \in 1..(Len(t) + 1) : OccursAt(k, t, i)

\* str.find(k): the first position of k in t, 0 when there is none (Python: -1).
Find(t, k) ==
    IF Contains(t, k)
    THEN CHOOSE i \in 1..(Len(t) + 1) : OccursAt(k, t, i) /\ \A j \in 1..(i - 1) : ~OccursAt(k, t, j)
    ELSE 0

\* str.rfind(k): the last position of k in t, 0 when there is none (Python: -1).
RFind(t, k) ==
    IF Contains(t, k)
    THEN CHOOSE i \in 1..(Len(t) + 1) : OccursAt(k, t, i) /\ \A j \in (i + 1)..(Len(t) + 1) : ~OccursAt(k, t, j)
    ELSE 0

RECURSIVE Join(_, _)
\* sep.join(items)
Join(sep, items) ==
    IF Len(items) = 0 THEN ""
    ELSE IF Len(items) = 1 THEN items[1]
    ELSE items[1] \o sep \o Join(sep, Tail(items))

\* The elements of a sequence.
Range(s) == {s[i] : i \in 1..Len(s)}

RECURSIVE Dedup(_)
\* list(dict.fromkeys(s)): first occurrences, order kept.
Dedup(s) ==
    IF Len(s) = 0 THEN <<>>
    ELSE LET front == Dedup(SubSeq(s, 1, Len(s) - 1))
             last  == s[Len(s)]
         IN  IF last \in Range(front) THEN front ELSE Append(front, last)

\* Code points order of the characters the red-flag terms are made of.
CharOrder == " '-abcdefghijklmnopqrstuvwxyz"

Ord(c) == IF Contains(CharOrder, c) /\ Len(c) = 1 THEN Find(CharOrder, c) ELSE 0

RECURSIVE StrLess(_, _)
\* Python's a < b on strings (lexicographic by code point).
StrLess(a, b) ==
    IF Len(b) = 0 THEN FALSE
    ELSE IF Len(a) = 0 THEN TRUE
    ELSE IF Chr(a, 1) = Chr(b, 1) THEN StrLess(SubSeq(a, 2, Len(a)), SubSeq(b, 2, Len(b)))
    ELSE Ord(Chr(a, 1)) < Ord(Chr(b, 1))

RECURSIVE SortedList(_)
\* sorted(list(S)) for a set S of strings.
SortedList(S) ==
    IF S = {} THEN <<>>
    ELSE LET m == CHOOSE x \in S : \A y \in S \ {x} : StrLess(x, y)
         IN  <<m>> \o SortedList(S \ {m})

(***************************************************************************)
(* ------------------- regular expressions (module re) ------------------- *)
(* A pattern is a sequence of atoms:                                       *)
(*   Lit(s)      the literal s                                             *)
(*   Ws1         \s+                                                       *)
(*   Ws0         \s*                                                       *)
(*   Opt(p)      (p)?                                                      *)
(*   Alt(ps)     p1|p2|...                                                 *)
(*   DotStar     .*   ('.' matches anything but a newline)                 *)
(*   Class(cs)   one character of the set cs                               *)
(***************************************************************************)
Lit(s) == [k |-> "lit", s |-> s]
Ws1 == [k |-> "ws1"]
Ws0 == [k |-> "ws0"]
Opt(p) == [k |-> "opt", p |-> p]
Alt(ps) == [k |-> "alt", ps |-> ps]
DotStar == [k |-> "dotstar"]
Class(cs) == [k |-> "class", cs |-> cs]

\* The positions j >= i such that every character of t[i..j-1] satisfies ok.
RunEnds(t, i, okset, notset) ==
    {j \in i..(Len(t) + 1) :
        \A m \in i..(j - 1) : (okset = {} \/ Chr(t, m) \in okset) /\ Chr(t, m) \notin notset}

RECURSIVE MatchEnds(_, _, _)
\* The positions where a match of pattern p that starts at position i of t may end
\* (the index after its last character).
MatchEnds(p, t, i) ==
    IF Len(p) = 0 THEN {i}
    ELSE LET a == p[1]
             rest == Tail(p)
             after ==
                 CASE a.k = "lit" ->
                        IF OccursAt(a.s, t, i) THEN {i + Len(a.s)} ELSE {}
                   [] a.k = "ws1" -> RunEnds(t, i, Whitespace, {}) \ {i}
                   [] a.k = "ws0" -> RunEnds(t, i, Whitespace, {})
                   [] a.k = "opt" -> {i} \cup MatchEnds(a.p, t, i)
                   [] a.k = "alt" -> UNION {MatchEnds(a.ps[n], t, i) : n \in 1..Len(a.ps)}
                   [] a.k = "dotstar" -> RunEnds(t, i, {}, {"\n"})
                   [] a.k = "class" ->
                        IF i <= Len(t) /\ Chr(t, i) \in a.cs THEN {i + 1} ELSE {}
         IN  UNION {MatchEnds(rest, t, j) : j \in after}

\* pattern.search(t) is not None, for a pattern compiled with re.I whose literals
\* are lower case: ignoring case is matching against the lower-cased subject.
Search(p, t) ==
    LET subject == Lower(t)
    IN  \E i \in 1..(Len(subject) + 1) : MatchEnds(p, subject, i) # {}

(***************************************************************************)
(* --------------- red-flag rules (app/safety/red_flag_rules.py) --------- *)
(***************************************************************************)
_CHEST == <<"chest pain", "severe chest pain", "pressure in chest", "chest pressure",
            "pain in chest", "crushing chest">>
_BREATHING == <<"shortness of breath", "difficulty breathing", "trouble breathing",
                "cannot breathe", "can't breathe", "can not breathe">>
_COLD_SWEAT_CHEST == <<"cold sweat", "cold sweats", "sweating and chest", "sweat and chest">>
_UNCONSCIOUS == <<"fainting", "passed out", "loss of consciousness", "unconscious",
                  "collapse", "collapsed">>
_STROKE == <<"face droop", "arm weakness", "slurred speech", "drooping face", "weakness in arm">>
_BLEEDING == <<"severe bleeding", "coughing blood", "vomiting blood", "heavy bleeding",
               "bleeding heavily">>
_SUICIDE_SELF_HARM == <<"suicidal thoughts", "suicidal thought", "self-harm", "self harm",
                        "hurt myself", "kill myself", "want to die", "end my life">>
_OVERDOSE_POISONING == <<"overdose", "overdosed", "poisoning", "poisoned">>

\* Flat list of keywords, lower-cased, in group order.
_ALL_KEYWORDS ==
    LET all == _CHEST \o _BREATHING \o _COLD_SWEAT_CHEST \o _UNCONSCIOUS \o _STROKE
               \o _BLEEDING \o _SUICIDE_SELF_HARM \o _OVERDOSE_POISONING
    IN  [n \in 1..Len(all) |-> Lower(all[n])]

\* _LABEL_BY_KEY: key -> the phrase as written in its group (the last one written
\* for that key).
_LABEL_BY_KEY ==
    LET all == _CHEST \o _BREATHING \o _COLD_SWEAT_CHEST \o _UNCONSCIOUS \o _STROKE
               \o _BLEEDING \o _SUICIDE_SELF_HARM \o _OVERDOSE_POISONING
    IN  [kw \in Range(_ALL_KEYWORDS) |->
            all[CHOOSE n \in 1..Len(all) :
                    /\ _ALL_KEYWORDS[n] = kw
                    /\ \A m \in (n + 1)..Len(all) : _ALL_KEYWORDS[m] # kw]]

\* (compiled pattern, label) pairs, in table order.
_PATTERNS == <<
    [pat |-> <<Lit("chest"), Ws1, Lit("pain")>>, label |-> "chest pain"],
    [pat |-> <<Lit("pressure"), Ws1, Lit("in"), Ws1, Opt(<<Lit("my"), Ws1>>), Lit("chest")>>,
     label |-> "pressure in chest"],
    [pat |-> <<Lit("shortness"), Ws1, Lit("of"), Ws1, Lit("breath")>>, label |-> "shortness of breath"],
    [pat |-> <<Lit("difficult"), Alt(<<<<Lit("y")>>, <<Lit("ies")>>>>), Ws1, Lit("breathing")>>,
     label |-> "difficulty breathing"],
    [pat |-> <<Lit("trouble"), Ws1, Lit("breathing")>>, label |-> "trouble breathing"],
    [pat |-> <<Lit("can"), Opt(<<Lit("'")>>), Lit("t"), Ws1, Lit("breathe")>>, label |-> "trouble breathing"],
    [pat |-> <<Lit("cold"), Ws1, Lit("sweat"), Opt(<<Lit("s")>>)>>, label |-> "cold sweat(s)"],
    [pat |-> <<Alt(<<<<Lit("sweat"), Opt(<<Lit("ing")>>), Ws1, DotStar, Lit("chest")>>,
                     <<Lit("chest"), DotStar, Lit("sweat")>>>>)>>,
     label |-> "sweating + chest pain"],
    [pat |-> <<Lit("passed"), Ws1, Lit("out")>>, label |-> "passed out"],
    [pat |-> <<Lit("loss"), Ws1, Lit("of"), Ws1, Lit("consciousness")>>, label |-> "loss of consciousness"],
    [pat |-> <<Alt(<<<<Lit("face"), Ws1, Lit("droop")>>,
                     <<Lit("droop"), Opt(<<Lit("ing")>>), Ws1, Lit("face")>>>>)>>,
     label |-> "face droop"],
    [pat |-> <<Alt(<<<<Lit("arm"), Ws1, Lit("weakness")>>,
                     <<Lit("weakness"), Ws1, Lit("in"), Ws1, Lit("arm")>>>>)>>,
     label |-> "arm weakness"],
    [pat |-> <<Lit("slurred"), Ws1, Lit("speech")>>, label |-> "slurred speech"],
    [pat |-> <<Lit("severe"), Ws1, Lit("bleeding")>>, label |-> "severe bleeding"],
    [pat |-> <<Alt(<<<<Lit("coughing"), Ws1, Lit("blood")>>,
                     <<Lit("vomiting"), Ws1, Lit("blood")>>>>)>>,
     label |-> "coughing/vomiting blood"],
    [pat |-> <<Lit("suicidal"), Ws1, Lit("thought"), Opt(<<Lit("s")>>)>>, label |-> "suicidal thoughts"],
    [pat |-> <<Lit("self"), Class(Whitespace \cup {"-"}), Lit("harm")>>, label |-> "self-harm"],
    [pat |-> <<Lit("overdose"), Opt(<<Lit("d")>>)>>, label |-> "overdose"],
    [pat |-> <<Lit("poison"), Opt(<<Alt(<<<<Lit("ed")>>, <<Lit("ing")>>>>)>>)>>, label |-> "poisoning"]
  >>

\* The labels of check_red_flags, in the order the two loops append them.
RECURSIVE KeywordLabels(_, _, _)
KeywordLabels(lower, n, matched) ==
    IF n > Len(_ALL_KEYWORDS) THEN matched
    ELSE LET kw == _ALL_KEYWORDS[n]
             label == IF kw \in DOMAIN _LABEL_BY_KEY THEN _LABEL_BY_KEY[kw] ELSE kw
         IN  KeywordLabels(lower, n + 1,
                 IF Contains(lower, kw) /\ label \notin Range(matched)
                 THEN Append(matched, label) ELSE matched)

RECURSIVE PatternLabels(_, _, _, _)
PatternLabels(text, lower, n, matched) ==
    IF n > Len(_PATTERNS) THEN matched
    ELSE LET pat == _PATTERNS[n].pat
             label == _PATTERNS[n].label
         IN  PatternLabels(text, lower, n + 1,
                 IF (Search(pat, text) \/ Search(pat, lower)) /\ label \notin Range(matched)
                 THEN Append(matched, label) ELSE matched)

\* The check that appends a label for every keyword and pattern found, seen or not.
check_red_flags_NoSeen(text) ==
    IF Len(text) = 0 \/ Len(Strip(text)) = 0
    THEN [hit |-> FALSE, matched_terms |-> <<>>]
    ELSE LET lower == Strip(Lower(text))
             kws == SelectSeq(_ALL_KEYWORDS, LAMBDA kw : Contains(lower, kw))
             pts == SelectSeq(_PATTERNS, LAMBDA p : Search(p.pat, text) \/ Search(p.pat, lower))
             matched == [n \in 1..Len(kws) |-> _LABEL_BY_KEY[kws[n]]]
                        \o [n \in 1..Len(pts) |-> pts[n].label]
         IN  [hit |-> Len(matched) > 0, matched_terms |-> matched]

\* check_red_flags(text) -> RedFlagMatch(hit, matched_terms)
check_red_flags(text) ==
    IF Len(text) = 0 \/ Len(Strip(text)) = 0
    THEN [hit |-> FALSE, matched_terms |-> <<>>]
    ELSE LET lower == Strip(Lower(text))
             matched == PatternLabels(text, lower, 1, KeywordLabels(lower, 1, <<>>))
         IN  [hit |-> Len(matched) > 0, matched_terms |-> matched]

(***************************************************************************)
(* ------------- early-exit detector (app/safety/red_flags.py) ----------- *)
(***************************************************************************)
self_harm_terms == <<"hurt myself", "kill myself", "suicide", "suicidal", "self harm",
                     "self-harm", "end my life", "want to die", "don't want to live">>
emergency_terms == <<"chest pain", "severe chest pain", "pressure in chest",
                     "shortness of breath", "difficulty breathing", "trouble breathing",
                     "cold sweat", "cold sweats", "fainting", "passed out",
                     "loss of consciousness", "coughing blood", "severe bleeding">>

\* detect_red_flags(text) -> {is_self_harm, is_emergency_medical, matched_terms}
detect_red_flags(text) ==
    LET t == Strip(Lower(text))
        all == self_harm_terms \o emergency_terms
        matched == {all[n] : n \in {m \in 1..Len(all) : Contains(t, all[m])}}
    IN  [is_self_harm |-> \E n \in 1..Len(self_harm_terms) : Contains(t, self_harm_terms[n]),
         is_emergency_medical |-> \E n \in 1..Len(emergency_terms) : Contains(t, emergency_terms[n]),
         matched_terms |-> SortedList(matched)]

(***************************************************************************)
(* ------------- assessments (app/llm/clinical_flow.py models) ----------- *)
(***************************************************************************)
\* RiskLevel = Literal[...]
RiskLevel == {"EMERGENCY", "URGENT", "ROUTINE", "SELF_CARE"}

\* RISK_ORDER of the evaluation suite: higher index = more severe.
RISK_ORDER == <<"SELF_CARE", "ROUTINE", "URGENT", "EMERGENCY">>

\* RISK_ORDER.index(level)
RiskIndex(level) == CHOOSE n \in 1..Len(RISK_ORDER) : RISK_ORDER[n] = level

\* risk_level_acceptable(actual, expected_min)
risk_level_acceptable(actual, expected_min) == RiskIndex(actual) >= RiskIndex(expected_min)

\* The fields of FinalAssessmentResponse.
AssessmentFields == {"risk_level", "summary", "possible_causes", "home_care",
                     "when_to_seek_care", "red_flags", "sources_query", "citations"}

\* The list fields that default to [] (Field(default_factory=list)).
DefaultListFields == {"possible_causes", "home_care", "when_to_seek_care", "red_flags",
                      "sources_query", "citations"}

\* FinalAssessmentResponse.model_validate(obj) for a parsed JSON object obj (a
\* function from keys to values): risk_level must be one of the literals, summary
\* must hold 3 to 6 entries, the other lists default to [], unknown keys are ignored.
ValidateFinalAssessment(obj) ==
    IF /\ "risk_level" \in DOMAIN obj
       /\ obj["risk_level"] \in RiskLevel
       /\ "summary" \in DOMAIN obj
       /\ Len(obj["summary"]) >= 3
       /\ Len(obj["summary"]) <= 6
    THEN [ok |-> TRUE,
          value |-> [f \in AssessmentFields |->
                        IF f \in DOMAIN obj THEN obj[f] ELSE <<>>]]
    ELSE [ok |-> FALSE, error |-> "ValidationError"]

\* FollowUpsResponse.model_validate(obj): follow_ups must hold 3 to 6 entries.
ValidateFollowUps(obj) ==
    IF /\ "follow_ups" \in DOMAIN obj
       /\ Len(obj["follow_ups"]) >= 3
       /\ Len(obj["follow_ups"]) <= 6
    THEN [ok |-> TRUE, value |-> [follow_ups |-> obj["follow_ups"]]]
    ELSE [ok |-> FALSE, error |-> "ValidationError"]

\* response_model.model_validate(obj)
ModelValidate(response_model, obj) ==
    IF response_model = "FinalAssessmentResponse"
    THEN ValidateFinalAssessment(obj)
    ELSE ValidateFollowUps(obj)

(***************************************************************************)
(* ------------------- guardrails (app/safety/policy.py) ----------------- *)
(***************************************************************************)
EMERGENCY_DISCLAIMER ==
    "This may be a medical emergency. Please call emergency services "
    \o "(e.g. 911 / your local emergency number) or go to the nearest emergency department immediately. "
    \o "This system cannot provide emergency care."

EMERGENCY_OVERRIDE_SUMMARY ==
    <<"Your symptoms may indicate a medical emergency.",
      "Seek emergency care immediately.">>

EMERGENCY_OVERRIDE_WHEN_TO_SEEK ==
    <<"Call emergency services (911) now or go to the nearest emergency department.",
      "Do not drive yourself if you feel faint or short of breath.">>

\* The guardrail that lists the model's red flags before the matched terms.
apply_guardrails_ModelFirst(user_text, model_result) ==
    LET m == check_red_flags(user_text)
    IN  IF ~m.hit
        THEN [assessment |-> model_result, emergency_message |-> None, matched_terms |-> <<>>]
        ELSE [assessment |-> [model_result EXCEPT
                                 !.risk_level = "EMERGENCY",
                                 !.summary = EMERGENCY_OVERRIDE_SUMMARY,
                                 !.when_to_seek_care = EMERGENCY_OVERRIDE_WHEN_TO_SEEK,
                                 !.red_flags = Dedup(model_result.red_flags \o m.matched_terms)],
              emergency_message |-> EMERGENCY_DISCLAIMER,
              matched_terms |-> m.matched_terms]

\* The guardrail that leaves an URGENT or EMERGENCY model verdict alone.
apply_guardrails_KeepSevere(user_text, model_result) ==
    LET m == check_red_flags(user_text)
    IN  IF ~m.hit \/ model_result.risk_level \in {"URGENT", "EMERGENCY"}
        THEN [assessment |-> model_result, emergency_message |-> None, matched_terms |-> <<>>]
        ELSE [assessment |-> [model_result EXCEPT
                                 !.risk_level = "EMERGENCY",
                                 !.summary = EMERGENCY_OVERRIDE_SUMMARY,
                                 !.when_to_seek_care = EMERGENCY_OVERRIDE_WHEN_TO_SEEK,
                                 !.red_flags = Dedup(m.matched_terms \o model_result.red_flags)],
              emergency_message |-> EMERGENCY_DISCLAIMER,
              matched_terms |-> m.matched_terms]

\* The guardrail that warns on every EMERGENCY assessment, red flag or not.
apply_guardrails_AlwaysWarn(user_text, model_result) ==
    LET m == check_red_flags(user_text)
    IN  IF ~m.hit
        THEN [assessment |-> model_result,
              emergency_message |->
                  IF model_result.risk_level = "EMERGENCY" THEN EMERGENCY_DISCLAIMER ELSE None,
              matched_terms |-> <<>>]
        ELSE [assessment |-> [model_result EXCEPT
                                 !.risk_level = "EMERGENCY",
                                 !.summary = EMERGENCY_OVERRIDE_SUMMARY,
                                 !.when_to_seek_care = EMERGENCY_OVERRIDE_WHEN_TO_SEEK,
                                 !.red_flags = Dedup(m.matched_terms \o model_result.red_flags)],
              emergency_message |-> EMERGENCY_DISCLAIMER,
              matched_terms |-> m.matched_terms]

\* apply_guardrails(user_text, model_result) -> GuardrailResult
apply_guardrails(user_text, model_result) ==
    LET m == check_red_flags(user_text)
    IN  IF ~m.hit
        THEN [assessment |-> model_result, emergency_message |-> None, matched_terms |-> <<>>]
        ELSE [assessment |-> [model_result EXCEPT
                                 !.risk_level = "EMERGENCY",
                                 !.summary = EMERGENCY_OVERRIDE_SUMMARY,
                                 !.when_to_seek_care = EMERGENCY_OVERRIDE_WHEN_TO_SEEK,
                                 !.red_flags = Dedup(m.matched_terms \o model_result.red_flags)],
              emergency_message |-> EMERGENCY_DISCLAIMER,
              matched_terms |-> m.matched_terms]

(***************************************************************************)
(* ------------- early-exit response (app/safety/early_exit.py) ---------- *)
(***************************************************************************)
\* The early-exit response that tests the emergency flag first.
build_emergency_response_MedicalFirst(flags) ==
    IF ~flags.is_emergency_medical
    THEN [risk_level |-> "EMERGENCY",
          summary |-> <<"You may be in immediate danger.",
                        "If you are in the U.S., call or text 988 (Suicide & Crisis Lifeline) now.",
                        "If you are in immediate danger, call 911 or your local emergency number.">>,
          when_to_seek_care |-> <<"Call 911 (or your local emergency number) now if you might act on these thoughts.",
                                  "Reach out to someone you trust and do not stay alone.">>,
          red_flags |-> <<"self-harm risk detected">>,
          possible_causes |-> <<>>,
          home_care |-> <<>>,
          sources_query |-> <<>>]
    ELSE [risk_level |-> "EMERGENCY",
          summary |-> <<"Chest pain or breathing problems can be a medical emergency.",
                        "Seek emergency evaluation immediately.",
                        "Do not wait.">>,
          when_to_seek_care |-> <<"Call 911 (or your local emergency number) now or go to the nearest emergency department.",
                                  "Do not drive yourself if you feel faint or short of breath.">>,
          red_flags |-> <<"emergency symptom: " \o Join(", ", flags.matched_terms)>>,
          possible_causes |-> <<>>,
          home_care |-> <<>>,
          sources_query |-> <<>>]

\* build_emergency_response(flags)
build_emergency_response(flags) ==
    IF flags.is_self_harm
    THEN [risk_level |-> "EMERGENCY",
          summary |-> <<"You may be in immediate danger.",
                        "If you are in the U.S., call or text 988 (Suicide & Crisis Lifeline) now.",
                        "If you are in immediate danger, call 911 or your local emergency number.">>,
          when_to_seek_care |-> <<"Call 911 (or your local emergency number) now if you might act on these thoughts.",
                                  "Reach out to someone you trust and do not stay alone.">>,
          red_flags |-> <<"self-harm risk detected">>,
          possible_causes |-> <<>>,
          home_care |-> <<>>,
          sources_query |-> <<>>]
    ELSE [risk_level |-> "EMERGENCY",
          summary |-> <<"Chest pain or breathing problems can be a medical emergency.",
                        "Seek emergency evaluation immediately.",
                        "Do not wait.">>,
          when_to_seek_care |-> <<"Call 911 (or your local emergency number) now or go to the nearest emergency department.",
                                  "Do not drive yourself if you feel faint or short of breath.">>,
          red_flags |-> <<"emergency symptom: " \o Join(", ", flags.matched_terms)>>,
          possible_causes |-> <<>>,
          home_care |-> <<>>,
          sources_query |-> <<>>]

(***************************************************************************)
(* ---------------------- renderer (app/llm/renderer.py) ----------------- *)
(* The source's dash and curly quotes are written "--" and "'" here.       *)
(***************************************************************************)
DISCLAIMER ==
    "This is general information only, not medical advice. "
    \o "This system does not diagnose or prescribe. Always consult a qualified healthcare provider for your situation."

RISK_LEVEL_MEANINGS(level) ==
    CASE level = "EMERGENCY" -> "May be life-threatening. Seek emergency care immediately (call emergency services or go to the nearest emergency department)."
      [] level = "URGENT" -> "Should be evaluated by a doctor soon. Do not delay if symptoms worsen."
      [] level = "ROUTINE" -> "A routine doctor visit is recommended when convenient."
      [] level = "SELF_CARE" -> "General self-care information may be appropriate; see 'When to seek care' if symptoms change or worsen."
      [] OTHER -> ""

\* _section(title, lines)
_section(title, lines) ==
    IF Len(lines) = 0 THEN ""
    ELSE "## " \o title \o "\n\n"
         \o Join("\n", [n \in 1..Len(lines) |-> "- " \o lines[n]]) \o "\n\n"

\* _ref_line(c)
_ref_line(c) ==
    LET label == IF c.source # "" THEN c.source ELSE "Source"
        url == Strip(c.url)
    IN  IF url # "" THEN "- [" \o label \o "](" \o url \o ")" ELSE "- " \o label

\* render_assessment_markdown(assessment, emergency_message=...)
render_assessment_markdown(assessment, emergency_message) ==
    LET warning ==
            IF emergency_message # None /\ Strip(emergency_message) # ""
            THEN "## Emergency warning\n\n" \o Strip(emergency_message) \o "\n\n"
            ELSE ""
        when_lines ==
            assessment.when_to_seek_care
            \o (IF Len(assessment.red_flags) > 0
                THEN <<"**Red flags -- seek care promptly:**">>
                     \o [n \in 1..Len(assessment.red_flags) |-> "**" \o assessment.red_flags[n] \o "**"]
                ELSE <<>>)
        refs == SelectSeq(assessment.citations, LAMBDA c : c.source # "" \/ c.url # "")
    IN  Strip(
            warning
            \o "## Disclaimer\n\n" \o DISCLAIMER \o "\n\n"
            \o "## Risk level\n\n**" \o assessment.risk_level \o "** -- "
                \o RISK_LEVEL_MEANINGS(assessment.risk_level) \o "\n\n"
            \o _section("Summary", assessment.summary)
            \o _section("Possible causes", assessment.possible_causes)
            \o _section("What you can do now", assessment.home_care)
            \o _section("When to seek care", when_lines)
            \o (IF Len(refs) > 0
                THEN "## References\n\n" \o Join("\n", [n \in 1..Len(refs) |-> _ref_line(refs[n])]) \o "\n"
                ELSE ""))

(***************************************************************************)
(* ------------- JSON extraction (app/llm/nova_client.py) ---------------- *)
(***************************************************************************)
\* A backtick cannot be written inside a TLA+ string: "^" stands for it in every text
\* of this module.
Backtick == "^"

\* The code fence (three backticks).
Fence == Backtick \o Backtick \o Backtick

\* Where the prefix <fence>(?:json)?\s*\n? of a fence opening at position i ends: the
\* optional tag (any casing) and then the whole run of whitespace (both greedy; the
\* run of \s* leaves no newline for \n? to take).
FencePrefixEnd(t, i) ==
    LET q == IF i + 6 <= Len(t) /\ Lower(SubSeq(t, i + 3, i + 6)) = "json" THEN i + 7 ELSE i + 3
        run == {j \in q..(Len(t) + 1) : \A m \in q..(j - 1) : Chr(t, m) \in Whitespace}
    IN  CHOOSE j \in run : \A m \in run : m <= j

\* The positions >= p where a closing fence starts.
ClosingFences(t, p) == {j \in p..Len(t) : OccursAt(Fence, t, j)}

\* re.search(r"<fence>(?:json)?\s*\n?(.*?)<fence>", text, re.DOTALL | re.IGNORECASE): the
\* leftmost opening fence that has a closing fence after its prefix; group(1) runs
\* from the end of the prefix to the first closing fence (lazy). matched = FALSE
\* when there is no match.
CodeBlockSearch(t) ==
    LET opens == {i \in 1..Len(t) :
                     OccursAt(Fence, t, i) /\ ClosingFences(t, FencePrefixEnd(t, i)) # {}}
    IN  IF opens = {} THEN [matched |-> FALSE, group |-> ""]
        ELSE LET i == CHOOSE a \in opens : \A b \in opens : a <= b
                 p == FencePrefixEnd(t, i)
                 c == CHOOSE a \in ClosingFences(t, p) : \A b \in ClosingFences(t, p) : a <= b
             IN  [matched |-> TRUE, group |-> SubSeq(t, p, c - 1)]

\* extraction that skips the code-fence stage.
extract_json_from_text_NoFence(raw) ==
    LET text == Strip(raw)
        start == Find(text, "{")
        end == RFind(text, "}")
    IN  IF text = "" THEN ""
        ELSE IF start # 0 /\ end # 0 /\ end >= start THEN SubSeq(text, start, end)
        ELSE text

\* extract_json_from_text(text)
extract_json_from_text(raw) ==
    LET text == Strip(raw)
        code_block == CodeBlockSearch(text)
        start == Find(text, "{")
        end == RFind(text, "}")
    IN  IF text = "" THEN ""
        ELSE IF code_block.matched THEN Strip(code_block.group)
        ELSE IF start # 0 /\ end # 0 /\ end >= start THEN SubSeq(text, start, end)
        ELSE text

(***************************************************************************)
(* ---------------------------- JSON documents --------------------------- *)
(* A raw model output is a text over braces, backticks, white space, the   *)
(* letters of a language tag, prose ("x") and member letters: a member     *)
(* letter stands for the text of an object's members (the key/value pairs  *)
(* between its braces), which holds no brace and no backtick. A member     *)
(* letter followed by a quoted string stands for the same members with     *)
(* that string as the first entry of summary (of follow_ups for the        *)
(* follow-up objects); the string may hold braces and backticks, and no    *)
(* quote or backslash.                                                     *)
(***************************************************************************)
Cite1 == [source |-> "Made-up Journal", url |-> "http://example.invalid/a", quote |-> "q"]

\* What each member letter stands for, as the object json.loads would build.
JsonMembers ==
    [c \in {"R", "E", "M", "U", "G", "C", "T", "H", "Q", "K"} |->
        CASE c = "R" -> [risk_level |-> "ROUTINE",
                         summary |-> <<"Likely tension headache.", "Duration unknown.", "Rest and hydrate.">>,
                         possible_causes |-> <<"tension", "dehydration">>,
                         home_care |-> <<"rest", "fluids", "dark room">>,
                         when_to_seek_care |-> <<"if it lasts more than 3 days">>,
                         red_flags |-> <<>>,
                         sources_query |-> <<"headache home care">>]
          [] c = "E" -> [risk_level |-> "EMERGENCY",
                         summary |-> <<"Emergency scenario.", "Seek care.", "Do not delay.">>,
                         possible_causes |-> <<>>,
                         home_care |-> <<>>,
                         when_to_seek_care |-> <<>>,
                         red_flags |-> <<>>,
                         sources_query |-> <<>>]
          [] c = "M" -> [risk_level |-> "EMERGENCY",
                         summary |-> <<"May be a cardiac event.", "Onset unknown.", "Call emergency services.">>,
                         possible_causes |-> <<"cardiac", "pulmonary">>,
                         home_care |-> <<"stop activity", "sit upright", "do not drive">>,
                         when_to_seek_care |-> <<"now">>,
                         red_flags |-> <<"chest pain", "fever">>,
                         sources_query |-> <<"chest pain emergency", "heart attack signs">>]
          [] c = "U" -> [risk_level |-> "URGENT",
                         summary |-> <<"Possible infection.", "Temperature unknown.", "See a doctor today.">>,
                         possible_causes |-> <<"infection", "flu">>,
                         home_care |-> <<"rest", "fluids", "monitor temperature">>,
                         when_to_seek_care |-> <<"today">>,
                         red_flags |-> <<"stiff neck", "overdose">>,
                         sources_query |-> <<"fever adults">>]
          [] c = "G" -> [risk_level |-> "SELF_CARE",
                         summary |-> <<"General guidance provided.", "See a doctor if needed.", "Rest.">>,
                         possible_causes |-> <<"a", "b">>,
                         home_care |-> <<"a", "b", "c">>]
          [] c = "C" -> [risk_level |-> "ROUTINE",
                         summary |-> <<"Likely a cold.", "Duration unknown.", "Rest.">>,
                         possible_causes |-> <<"cold", "allergy">>,
                         home_care |-> <<"rest", "fluids", "humidifier">>,
                         citations |-> <<Cite1>>]
          [] c = "T" -> [risk_level |-> "ROUTINE",
                         summary |-> <<"Only two.", "Points.">>]
          [] c = "H" -> [risk_level |-> "HIGH",
                         summary |-> <<"a", "b", "c">>]
          [] c = "Q" -> [follow_ups |-> <<"How long?", "Any fever?", "Any other symptoms?">>]
          [] c = "K" -> [follow_ups |-> <<"How long?", "Any fever?">>]]

\* The white space JSON allows around a value.
JsonWhitespace == {" ", "\t", "\n", "\r"}

JsonStrip(t) ==
    LET lo == SkipForward(t, 1, JsonWhitespace)
    IN  IF lo > Len(t) THEN "" ELSE SubSeq(t, lo, SkipBackward(t, Len(t), JsonWhitespace))

\* The quote that delimits a JSON string.
Quote == "\""

\* The object of member letter c with the string payload as its first summary
\* entry (first follow-up question).
JsonObject(c, payload) ==
    IF "summary" \in DOMAIN JsonMembers[c]
    THEN [JsonMembers[c] EXCEPT !.summary[1] = payload]
    ELSE [JsonMembers[c] EXCEPT !.follow_ups[1] = payload]

\* json.loads(s) for an object document: "{" members "}" with optional white space;
\* anything else (prose, a fence, two objects, an unclosed brace or string) is a
\* parse error.
JsonLoads(s) ==
    LET u == JsonStrip(s)
        inner == IF Len(u) >= 2 THEN JsonStrip(SubSeq(u, 2, Len(u) - 1)) ELSE ""
    IN  IF Len(u) >= 2 /\ Chr(u, 1) = "{" /\ Chr(u, Len(u)) = "}"
        THEN IF inner = "" THEN [ok |-> TRUE, value |-> <<>>]
             ELSE IF inner \in DOMAIN JsonMembers THEN [ok |-> TRUE, value |-> JsonMembers[inner]]
             ELSE IF /\ Len(inner) >= 3
                     /\ Chr(inner, 1) \in DOMAIN JsonMembers
                     /\ Chr(inner, 2) = Quote
                     /\ Chr(inner, Len(inner)) = Quote
                     /\ \A i \in 3..(Len(inner) - 1) : Chr(inner, i) # Quote
             THEN [ok |-> TRUE,
                   value |-> JsonObject(Chr(inner, 1), SubSeq(inner, 3, Len(inner) - 1))]
             ELSE [ok |-> FALSE, error |-> "JSONDecodeError"]
        ELSE [ok |-> FALSE, error |-> "JSONDecodeError"]

\* response_model.model_validate_json(cleaned)
model_validate_json(response_model, cleaned) ==
    LET doc == JsonLoads(cleaned)
    IN  IF doc.ok THEN ModelValidate(response_model, doc.value)
        ELSE [ok |-> FALSE, error |-> "ValidationError"]

(***************************************************************************)
(* ----------- model invocation layer (app/llm/nova_client.py) ----------- *)
(***************************************************************************)
\* One provider request ends with a text (content, possibly None) or an exception
\* (its message).
ProviderText(content) == [kind |-> "text", content |-> content]
ProviderError(message) == [kind |-> "error", message |-> message]

\* invoke_nova that asks again after any exception of a strict-JSON request.
invoke_nova_RetryAny(has_key, response_format, o1, o2) ==
    IF ~has_key
    THEN [ok |-> FALSE, error |-> "ValueError: NOVA_API_KEY is required", requests |-> 0]
    ELSE IF o1.kind = "text"
    THEN [ok |-> TRUE, text |-> Strip(IF o1.content = None THEN "" ELSE o1.content), requests |-> 1]
    ELSE IF response_format # None
    THEN IF o2.kind = "text"
         THEN [ok |-> TRUE, text |-> Strip(IF o2.content = None THEN "" ELSE o2.content), requests |-> 2]
         ELSE [ok |-> FALSE, error |-> o2.message, requests |-> 2]
    ELSE [ok |-> FALSE, error |-> o1.message, requests |-> 1]

\* invoke_nova(messages, system_prompt, response_format=..., temperature=...):
\* has_key: NOVA_API_KEY is set; o1, o2: how the first and (if made) the second
\* provider request end. Returns the text or the exception, with the number of
\* provider requests made.
invoke_nova(has_key, response_format, o1, o2) ==
    IF ~has_key
    THEN [ok |-> FALSE, error |-> "ValueError: NOVA_API_KEY is required", requests |-> 0]
    ELSE IF o1.kind = "text"
    THEN [ok |-> TRUE, text |-> Strip(IF o1.content = None THEN "" ELSE o1.content), requests |-> 1]
    ELSE IF response_format # None /\ Contains(Lower(o1.message), "response_format")
    THEN IF o2.kind = "text"
         THEN [ok |-> TRUE, text |-> Strip(IF o2.content = None THEN "" ELSE o2.content), requests |-> 2]
         ELSE [ok |-> FALSE, error |-> o2.message, requests |-> 2]
    ELSE [ok |-> FALSE, error |-> o1.message, requests |-> 1]

\* parse(text_to_parse) inside invoke_nova_json
parse(response_model, text_to_parse) ==
    LET cleaned == extract_json_from_text(text_to_parse)
    IN  IF cleaned = "" THEN [ok |-> FALSE, error |-> "ValueError: No JSON extracted from response"]
        ELSE model_validate_json(response_model, cleaned)

FINAL_ASSESSMENT_SCHEMA_DESC ==
    "JSON object with exactly these keys and minimum content: "
    \o "\"risk_level\" (one of: SELF_CARE, ROUTINE, URGENT, EMERGENCY); "
    \o "\"summary\" (array of 3-6 strings: what it might be, what info is missing, what to do next); "
    \o "\"possible_causes\" (at least 3 strings); "
    \o "\"home_care\" (at least 5 concrete steps, e.g. fluids, rest, OTC, triggers to avoid); "
    \o "\"when_to_seek_care\" (at least 5 items including red flags); "
    \o "\"red_flags\" (at least 3 items tailored to the symptom); "
    \o "optional \"sources_query\" (array of strings). "
    \o "No generic filler; no repeated disclaimers."

REPAIR_SYSTEM ==
    "You are a clinical triage assistant. Produce complete, specific guidance. Output JSON only. "
    \o "No markdown, no code fences, no explanation."

\* _repair_user_message(original_model_output, user_symptom)
_repair_user_message(original_model_output, user_symptom) ==
    Join("\n",
         <<"Required JSON schema: " \o FINAL_ASSESSMENT_SCHEMA_DESC,
           "",
           "If the previous model output was generic or incomplete, regenerate a full triage response from scratch based on the user's symptom. Otherwise convert the output below to valid JSON matching the schema.",
           "">>
         \o (IF user_symptom # None /\ user_symptom # ""
             THEN <<"User's symptom(s):", Strip(user_symptom), "">>
             ELSE <<>>)
         \o <<"Previous model output:", original_model_output>>)

\* The schema-mismatch error invoke_nova_json raises after a failed repair.
SchemaMismatch == "ValueError: LLM response did not match schema after repair"

(***************************************************************************)
(* ------------------------------- state --------------------------------- *)
(***************************************************************************)
VARIABLES
    NOVA_API_KEY,   \* nova_client.NOVA_API_KEY, read once from the environment
    _metrics,       \* logging_structured._metrics, the process-wide counters
    log,            \* the conversation's rows of the messages table, in order
    assessments,    \* the conversation's rows of the assessments table
    served,         \* number of POST /chat requests received so far
    pc,             \* where the request being served stands in chat()
    message,        \* request.message of the request being served
    local,          \* the locals of chat() and final_assessment()
    response,       \* what the request returned: a ChatResponse or an HTTP 500
    nj,             \* the run of invoke_nova_json in progress, until its caller resumes
    novaCalls,      \* invoke_nova calls made while serving the request
    stages          \* the risk levels the stages of this request produced, in order

vars == <<NOVA_API_KEY, _metrics, log, assessments, served, pc, message, local, response, nj,
          novaCalls, stages>>

\* A key the by_risk_level dictionary does not hold reads as Absent (d.get(key) is None).
Absent == -1

\* _metrics as the module defines it: the counters at 0, by_risk_level empty.
InitMetrics ==
    [requests_total |-> 0, red_flag_hits_total |-> 0,
     by_risk_level |-> [level \in {"EMERGENCY", "URGENT", "ROUTINE", "SELF_CARE"} |-> Absent],
     rag_retrievals_total |-> 0, model_tokens_est_total |-> 0]

\* Number of requests one behaviour serves.
MaxRequests == 2

\* response_format={"type": "json_object"}
JSON_OBJECT == "json_object"

(***************************************************************************)
(* ----------- invoke_nova_json (app/llm/nova_client.py) ----------------- *)
(* A run is a record; each step is one invoke_nova call and the code up to  *)
(* the next call or the end of the function.                               *)
(***************************************************************************)
\* No run.
NoRun == [stage |-> "none", response_model |-> None, messages |-> <<>>,
          user_symptom_for_repair |-> None, raw |-> None, repair_raw |-> None,
          calls |-> 0, requests |-> 0, events |-> <<>>, result |-> Null, error |-> None]

\* The run at the entry of invoke_nova_json(messages, system_prompt, response_model,
\* user_symptom_for_repair=...).
StartRun(messages, response_model, user_symptom_for_repair) ==
    [NoRun EXCEPT !.stage = "first", !.response_model = response_model,
                  !.messages = messages,
                  !.user_symptom_for_repair = user_symptom_for_repair]

\* Whether a second provider request is made after the first ended as o1.
NeedsFallback(response_format, o1) ==
    o1.kind = "error" /\ response_format # None /\ Contains(Lower(o1.message), "response_format")

\* The first step that sends every output to repair, valid or not.
invoke_nova_json_first_AlwaysRepair(run, has_key, o1, o2) ==
    LET r == invoke_nova(has_key, JSON_OBJECT, o1, o2)
        called == [run EXCEPT !.calls = @ + 1, !.requests = @ + r.requests]
    IN  IF ~r.ok THEN [called EXCEPT !.stage = "raised", !.error = r.error]
        ELSE [called EXCEPT !.stage = "repair", !.raw = r.text,
                            !.events = Append(@, "nova_parse_failed_first_pass")]

\* The first step that records the first-pass failure twice.
invoke_nova_json_first_LogTwice(run, has_key, o1, o2) ==
    LET r == invoke_nova(has_key, JSON_OBJECT, o1, o2)
        called == [run EXCEPT !.calls = @ + 1, !.requests = @ + r.requests]
    IN  IF ~r.ok THEN [called EXCEPT !.stage = "raised", !.error = r.error]
        ELSE LET text == extract_json_from_text(r.text)
                 parsed == parse(run.response_model, text)
             IN  IF parsed.ok
                 THEN [called EXCEPT !.stage = "returned", !.raw = r.text, !.result = parsed.value]
                 ELSE [called EXCEPT !.stage = "repair", !.raw = r.text,
                                     !.events = @ \o <<"nova_parse_failed_first_pass",
                                                       "nova_parse_failed_first_pass">>]

\* invoke_nova_json up to the end of the first pass: the initial call, the
\* extraction and parse(text).
invoke_nova_json_first(run, has_key, o1, o2) ==
    LET r == invoke_nova(has_key, JSON_OBJECT, o1, o2)
        called == [run EXCEPT !.calls = @ + 1, !.requests = @ + r.requests]
    IN  IF ~r.ok THEN [called EXCEPT !.stage = "raised", !.error = r.error]
        ELSE LET text == extract_json_from_text(r.text)
                 parsed == parse(run.response_model, text)
             IN  IF parsed.ok
                 THEN [called EXCEPT !.stage = "returned", !.raw = r.text, !.result = parsed.value]
                 ELSE [called EXCEPT !.stage = "repair", !.raw = r.text,
                                     !.events = Append(@, "nova_parse_failed_first_pass")]

\* The repair step that makes one more repair call when the repair output fails.
invoke_nova_json_repair_ThirdCall(run, has_key, o1, o2) ==
    LET r == invoke_nova(has_key, JSON_OBJECT, o1, o2)
        called == [run EXCEPT !.calls = @ + 1, !.requests = @ + r.requests]
    IN  IF ~r.ok THEN [called EXCEPT !.stage = "raised", !.error = r.error]
        ELSE LET parsed == parse(run.response_model, r.text)
             IN  IF parsed.ok
                 THEN [called EXCEPT !.stage = "returned", !.repair_raw = r.text,
                                     !.result = parsed.value,
                                     !.events = Append(@, "nova_parse_repaired")]
                 ELSE IF called.calls < 3
                 THEN [called EXCEPT !.repair_raw = r.text]
                 ELSE [called EXCEPT !.stage = "raised", !.repair_raw = r.text,
                                     !.error = SchemaMismatch,
                                     !.events = Append(@, "nova_parse_failed_final")]

\* The repair step that asks again when the repair output fails too.
invoke_nova_json_repair_Retry(run, has_key, o1, o2) ==
    LET r == invoke_nova(has_key, JSON_OBJECT, o1, o2)
        called == [run EXCEPT !.calls = @ + 1, !.requests = @ + r.requests]
    IN  IF ~r.ok THEN [called EXCEPT !.stage = "raised", !.error = r.error]
        ELSE LET parsed == parse(run.response_model, r.text)
             IN  IF parsed.ok
                 THEN [called EXCEPT !.stage = "returned", !.repair_raw = r.text,
                                     !.result = parsed.value,
                                     !.events = Append(@, "nova_parse_repaired")]
                 ELSE [called EXCEPT !.stage = "repair", !.repair_raw = r.text,
                                     !.events = Append(@, "nova_parse_failed_final")]

\* The repair step that returns the first output's text when the repair fails too.
invoke_nova_json_repair_Swallow(run, has_key, o1, o2) ==
    LET r == invoke_nova(has_key, JSON_OBJECT, o1, o2)
        called == [run EXCEPT !.calls = @ + 1, !.requests = @ + r.requests]
    IN  IF ~r.ok THEN [called EXCEPT !.stage = "raised", !.error = r.error]
        ELSE LET parsed == parse(run.response_model, r.text)
             IN  IF parsed.ok
                 THEN [called EXCEPT !.stage = "returned", !.repair_raw = r.text,
                                     !.result = parsed.value,
                                     !.events = Append(@, "nova_parse_repaired")]
                 ELSE [called EXCEPT !.stage = "returned", !.repair_raw = r.text,
                                     !.result = Null,
                                     !.events = Append(@, "nova_parse_failed_final")]

\* invoke_nova_json from the first-pass failure on: the repair call and
\* parse(repair_raw).
invoke_nova_json_repair(run, has_key, o1, o2) ==
    LET r == invoke_nova(has_key, JSON_OBJECT, o1, o2)
        called == [run EXCEPT !.calls = @ + 1, !.requests = @ + r.requests]
    IN  IF ~r.ok THEN [called EXCEPT !.stage = "raised", !.error = r.error]
        ELSE LET parsed == parse(run.response_model, r.text)
             IN  IF parsed.ok
                 THEN [called EXCEPT !.stage = "returned", !.repair_raw = r.text,
                                     !.result = parsed.value,
                                     !.events = Append(@, "nova_parse_repaired")]
                 ELSE [called EXCEPT !.stage = "raised", !.repair_raw = r.text,
                                     !.error = SchemaMismatch,
                                     !.events = Append(@, "nova_parse_failed_final")]

\* Whether the run is over (returned or raised).
RunOver(run) == run.stage \in {"returned", "raised"}

(***************************************************************************)
(* ---------------- clinical flow (app/llm/clinical_flow.py) ------------- *)
(***************************************************************************)
\* s[:n]
Prefix(t, n) == IF Len(t) <= n THEN t ELSE SubSeq(t, 1, n)

\* s[-n:]
LastN(items, n) == IF Len(items) <= n THEN items ELSE SubSeq(items, Len(items) - n + 1, Len(items))

\* The stripped, non-empty contents of the user messages, in order.
UserContents(messages) ==
    LET users == SelectSeq(messages, LAMBDA m : m.role = "user" /\ Strip(m.content) # "")
    IN  [n \in 1..Len(users) |-> Strip(users[n].content)]

\* _build_final_assessment_messages(messages)
_build_final_assessment_messages(messages) ==
    LET user_contents == UserContents(messages)
    IN  IF Len(user_contents) = 0
        THEN <<[role |-> "user", content |-> "I have a health question."]>>
        ELSE IF Len(user_contents) = 1
        THEN <<[role |-> "user", content |-> user_contents[1]]>>
        ELSE LET prior == Join(" | ", LastN(SubSeq(user_contents, 1, Len(user_contents) - 1), 3))
                 latest == user_contents[Len(user_contents)]
             IN  <<[role |-> "user",
                    content |-> "Prior symptoms/context: " \o prior \o "\n\nLatest: " \o latest]>>

\* _last_user_content(messages)
_last_user_content(messages) ==
    LET users == SelectSeq(messages, LAMBDA m : m.role = "user")
    IN  IF Len(users) = 0 THEN "" ELSE Strip(users[Len(users)].content)

\* The quality gate that only looks for the filler phrase.
_is_substantive_FillerOnly(resp) ==
    ~Contains(Lower(Join(" ", resp.summary)), "general guidance provided")

\* _is_substantive(resp)
_is_substantive(resp) ==
    LET summary_text == Lower(Join(" ", resp.summary))
    IN  IF Contains(summary_text, "general guidance provided") THEN FALSE
        ELSE IF Len(resp.possible_causes) < 2 THEN FALSE
        ELSE IF Len(resp.home_care) < 3 THEN FALSE
        ELSE TRUE

\* What retrieve_top_k(q, top_k) may do for one query: return chunks or raise.
Chunk1 == [source |-> "CDC", title |-> "Headache", url |-> "https://cdc.example/headache",
           content |-> "Most headaches are not serious."]
Chunk2 == [source |-> "", title |-> "Notes", url |-> "", content |-> "Drink water."]
LookupOutcomes ==
    {[ok |-> FALSE, error |-> "RuntimeError: embedding request failed"],
     [ok |-> TRUE, chunks |-> <<>>],
     [ok |-> TRUE, chunks |-> <<Chunk1>>],
     [ok |-> TRUE, chunks |-> <<Chunk1, Chunk2>>]}

TOP_K == 5

\* Citation(source=..., url=..., quote=...) of a chunk.
CitationOf(c) == [source |-> c.source, url |-> c.url, quote |-> Prefix(c.content, 500)]

\* The dedup key of a chunk.
ChunkKey(c) == <<c.source, c.url, Prefix(c.content, 80)>>

RECURSIVE AddChunks(_, _, _)
\* The inner loop of _get_citations_for_assessment over the chunks of one query.
AddChunks(chunks, seen, citations) ==
    IF Len(chunks) = 0 THEN [seen |-> seen, citations |-> citations]
    ELSE LET c == Head(chunks)
         IN  IF ChunkKey(c) \in seen
             THEN AddChunks(Tail(chunks), seen, citations)
             ELSE AddChunks(Tail(chunks), seen \cup {ChunkKey(c)}, Append(citations, CitationOf(c)))

RECURSIVE CitationLoop(_, _, _, _)
\* The outer loop of _get_citations_for_assessment over sources_query[:3]; lookup
\* maps each query to what retrieve_top_k does for it.
CitationLoop(queries, lookup, seen, citations) ==
    IF Len(queries) = 0 THEN [ok |-> TRUE, value |-> Prefix(citations, 15)]
    ELSE LET found == lookup[Head(queries)]
         IN  IF ~found.ok THEN [ok |-> FALSE, error |-> found.error]
             ELSE LET acc == AddChunks(found.chunks, seen, citations)
                  IN  IF Len(acc.citations) >= TOP_K * 2
                      THEN [ok |-> TRUE, value |-> Prefix(acc.citations, 15)]
                      ELSE CitationLoop(Tail(queries), lookup, acc.seen, acc.citations)

\* _get_citations_for_assessment(sources_query): importable says whether app.rag.rag
\* can be imported.
_get_citations_for_assessment(sources_query, importable, lookup) ==
    IF Len(sources_query) = 0 THEN [ok |-> TRUE, value |-> <<>>]
    ELSE IF ~importable THEN [ok |-> TRUE, value |-> <<>>]
    ELSE CitationLoop(Prefix(sources_query, 3), lookup, {}, <<>>)

(***************************************************************************)
(* --------------------------- POST /chat (main.py) ---------------------- *)
(***************************************************************************)
\* The request messages served.
ChatMessages ==
    {"I have a mild headache",
     "chest pain",
     "hurt myself",
     "I think I overdosed on medication"}

\* How a provider request may end while a request is served.
ChatOutputs ==
    {ProviderText("{R}"),
     ProviderText("Here is the result:\n^^^json\n{U}\n^^^"),
     ProviderText("Some preface. {E} Some trailing."),
     ProviderText("{M}"),
     ProviderText("{Q}"),
     ProviderText("x x x"),
     ProviderError("Request timed out."),
     ProviderError("Error code: 400 - response_format is not supported by this model")}

\* ChatResponse(...), as the client receives it.
ChatResponse(reply, follow_up_questions, final_markdown, risk_level) ==
    [status |-> 200, reply |-> reply, conversation_id |-> 1,
     follow_up_questions |-> follow_up_questions,
     final_markdown |-> final_markdown, risk_level |-> risk_level]

\* An exception left chat(): the framework answers 500 Internal Server Error.
InternalServerError == [status |-> 500]

\* No response yet.
NoResponse == [status |-> 0]

\* The locals of chat() at its entry.
InitLocal ==
    [flags |-> Null, red_flag_hits |-> 0, risk_level |-> None, reply |-> "",
     follow_up_questions |-> Null, final_markdown |-> None, messages |-> <<>>,
     last_user |-> "", resp |-> Null, model_result |-> Null, result |-> Null,
     exc |-> None]

REPLY_ASSESSMENT == "Here is information based on your description. This is not medical advice."
REPLY_FOLLOWUPS == "Choose a follow-up question below or describe your situation in your own words."
REPLY_PLACEHOLDER == "Choose a question below or type your own."
PLACEHOLDER_QUESTIONS == <<"How long have your symptoms lasted?", "Do you have a fever?", "Any other symptoms?">>
REPLY_FALLBACK ==
    "This is general information only, not medical advice. "
    \o "Consult a healthcare provider for your situation."
FALLBACK_MARKDOWN ==
    "## Disclaimer\n\nThis is general information only, not medical advice. "
    \o "This system does not diagnose or prescribe. Always consult a qualified healthcare provider.\n\n"
    \o "## Risk level\n\n**ROUTINE** -- A routine doctor visit is recommended when convenient.\n\n"
    \o "## When to seek care\n\n- If symptoms worsen or last more than a few days, see a doctor."

\* if flags["is_self_harm"] or flags["is_emergency_medical"]:
EarlyExitGate(flags) == flags.is_self_harm \/ flags.is_emergency_medical

\* flags = detect_red_flags(request.message), for each message served.
DetectedFlags == [m \in ChatMessages |-> detect_red_flags(m)]

\* len([m for m in messages if m["role"] == "user"])
UserTurns(messages) == Len(SelectSeq(messages, LAMBDA m : m.role = "user"))

\* chat() from its entry to the first model call, or to its return on the early-exit
\* path. new: request.conversation_id is None, so a conversation is created and the
\* history is empty; otherwise the request continues the conversation of the rows in
\* log. db_user, db_asst, db_save: whether add_message(user), add_message(assistant)
\* and save_assessment succeed. kept: whether an add_message that raises does so
\* after its session.commit() (at session.refresh), so that the row stays.
ChatBegin ==
    /\ pc \in {"idle", "done", "error"}
    /\ served < MaxRequests
    /\ \E m \in ChatMessages :
       \E final_markdown \in
            {IF EarlyExitGate(DetectedFlags[m])
             THEN render_assessment_markdown(
                      ValidateFinalAssessment(build_emergency_response(DetectedFlags[m])).value,
                      None)
             ELSE None} :
       \E new \in BOOLEAN, db_user \in BOOLEAN, db_asst \in BOOLEAN, db_save \in BOOLEAN,
          kept \in BOOLEAN :
        LET log0 == IF new THEN <<>> ELSE log
            rows0 == IF new THEN <<>> ELSE assessments
            log1 == Append(log0, [role |-> "user", content |-> m])
            flags == DetectedFlags[m]
            loc1 == [InitLocal EXCEPT !.flags = flags,
                                      !.red_flag_hits = Len(flags.matched_terms),
                                      !.messages = log1]
        IN  /\ served' = served + 1
            /\ UNCHANGED <<NOVA_API_KEY, _metrics>>
            /\ message' = m
            /\ novaCalls' = 0
            /\ stages' = <<>>
            /\ IF ~db_user
               THEN /\ pc' = "error"
                    /\ response' = InternalServerError
                    /\ local' = InitLocal
                    /\ nj' = NoRun
                    /\ log' = IF kept THEN log1 ELSE log0
                    /\ assessments' = rows0
               ELSE IF EarlyExitGate(flags)
               THEN IF ~db_asst
                    THEN /\ pc' = "error"
                         /\ response' = InternalServerError
                         /\ local' = [loc1 EXCEPT !.final_markdown = final_markdown,
                                                  !.reply = REPLY_ASSESSMENT]
                         /\ log' = IF kept
                                   THEN Append(log1, [role |-> "assistant", content |-> REPLY_ASSESSMENT])
                                   ELSE log1
                         /\ nj' = NoRun
                         /\ assessments' = rows0
                    ELSE /\ pc' = "done"
                         /\ local' = [loc1 EXCEPT !.final_markdown = final_markdown,
                                                  !.reply = REPLY_ASSESSMENT,
                                                  !.risk_level = "EMERGENCY"]
                         /\ log' = Append(log1, [role |-> "assistant", content |-> REPLY_ASSESSMENT])
                         /\ assessments' = IF db_save THEN Append(rows0, "EMERGENCY")
                                           ELSE rows0
                         /\ response' = ChatResponse(REPLY_ASSESSMENT, <<>>, final_markdown, "EMERGENCY")
                         /\ nj' = NoRun
               ELSE IF UserTurns(log1) = 1
               THEN /\ pc' = "followups"
                    /\ local' = loc1
                    /\ log' = log1
                    /\ nj' = StartRun(log1, "FollowUpsResponse", None)
                    /\ response' = NoResponse
                    /\ assessments' = rows0
               ELSE /\ pc' = "final"
                    /\ local' = [loc1 EXCEPT !.last_user =
                                     IF _last_user_content(log1) # "" THEN _last_user_content(log1)
                                     ELSE "User described symptoms."]
                    /\ log' = log1
                    /\ nj' = StartRun(_build_final_assessment_messages(log1),
                                      "FinalAssessmentResponse",
                                      IF _last_user_content(log1) # "" THEN _last_user_content(log1)
                                      ELSE "User described symptoms.")
                    /\ response' = NoResponse
                    /\ assessments' = rows0

\* The initial call of the run in progress: one invoke_nova call, whose provider
\* requests end as the environment chooses among outs.
NovaFirst(outs) ==
    /\ nj.stage = "first"
    /\ \E o1 \in outs :
        \E o2 \in (IF NeedsFallback(JSON_OBJECT, o1) THEN outs ELSE {o1}) :
            nj' = invoke_nova_json_first(nj, NOVA_API_KEY # "", o1, o2)
    /\ novaCalls' = novaCalls + 1
    /\ UNCHANGED <<NOVA_API_KEY, _metrics, log, assessments, served, pc, message, local, response, stages>>

\* The repair call of the run in progress.
NovaRepair(outs) ==
    /\ nj.stage = "repair"
    /\ \E o1 \in outs :
        \E o2 \in (IF NeedsFallback(JSON_OBJECT, o1) THEN outs ELSE {o1}) :
            nj' = invoke_nova_json_repair(nj, NOVA_API_KEY # "", o1, o2)
    /\ novaCalls' = novaCalls + 1
    /\ UNCHANGED <<NOVA_API_KEY, _metrics, log, assessments, served, pc, message, local, response, stages>>

\* First turn: generate_followups returned or raised; chat() answers with the
\* follow-up questions or the placeholder ones.
ChatFollowups ==
    /\ pc = "followups"
    /\ RunOver(nj)
    /\ \E db_asst \in BOOLEAN :
        LET follow_up_questions ==
                IF nj.stage = "returned" THEN nj.result.follow_ups ELSE PLACEHOLDER_QUESTIONS
            reply == IF nj.stage = "returned" THEN REPLY_FOLLOWUPS ELSE REPLY_PLACEHOLDER
            loc1 == [local EXCEPT !.follow_up_questions = follow_up_questions, !.reply = reply]
        IN  /\ local' = loc1
            /\ IF db_asst
               THEN /\ log' = Append(log, [role |-> "assistant", content |-> reply])
                    /\ pc' = "done"
                    /\ response' = ChatResponse(reply, follow_up_questions, None, loc1.risk_level)
               ELSE /\ pc' = "error"
                    /\ response' = InternalServerError
                    /\ \E kept \in BOOLEAN :
                        log' = IF kept THEN Append(log, [role |-> "assistant", content |-> reply])
                               ELSE log
    /\ nj' = NoRun
    /\ UNCHANGED <<NOVA_API_KEY, _metrics, assessments, served, message, novaCalls, stages>>

\* Control leaves the try block of chat() with exception exc.
Raise(loc, exc) == [loc EXCEPT !.exc = exc]

\* final_assessment() after its first invoke_nova_json: the quality gate.
FinalGate ==
    /\ pc = "final"
    /\ RunOver(nj)
    /\ IF nj.stage = "raised"
       THEN /\ pc' = "fallback"
            /\ local' = Raise(local, nj.error)
            /\ nj' = NoRun
            /\ UNCHANGED stages
       ELSE /\ stages' = Append(stages, [stage |-> "model", risk_level |-> nj.result.risk_level])
            /\ local' = [local EXCEPT !.resp = nj.result]
            /\ IF ~_is_substantive(nj.result)
               THEN /\ pc' = "quality"
                    /\ nj' = StartRun(<<[role |-> "user", content |-> Strip(local.last_user)]>>,
                                      "FinalAssessmentResponse", None)
               ELSE /\ pc' = "citations"
                    /\ nj' = NoRun
    /\ UNCHANGED <<NOVA_API_KEY, _metrics, log, assessments, served, message, response, novaCalls>>

\* The return from the regeneration that applies the quality gate again and
\* regenerates once more when the output is rejected.
QualityReturn_Recheck ==
    /\ pc = "quality"
    /\ RunOver(nj)
    /\ IF nj.stage = "raised"
       THEN /\ pc' = "fallback"
            /\ local' = Raise(local, nj.error)
            /\ nj' = NoRun
            /\ UNCHANGED stages
       ELSE /\ local' = [local EXCEPT !.resp = nj.result]
            /\ stages' = Append(stages, [stage |-> "quality", risk_level |-> nj.result.risk_level])
            /\ IF ~_is_substantive(nj.result) /\ Len(stages) < 2
               THEN /\ pc' = "quality"
                    /\ nj' = StartRun(<<[role |-> "user", content |-> Strip(local.last_user)]>>,
                                      "FinalAssessmentResponse", None)
               ELSE /\ pc' = "citations"
                    /\ nj' = NoRun
    /\ UNCHANGED <<NOVA_API_KEY, _metrics, log, assessments, served, message, response, novaCalls>>

\* final_assessment() after repair_final_assessment_for_quality returned or raised.
QualityReturn ==
    /\ pc = "quality"
    /\ RunOver(nj)
    /\ IF nj.stage = "raised"
       THEN /\ pc' = "fallback"
            /\ local' = Raise(local, nj.error)
            /\ UNCHANGED stages
       ELSE /\ pc' = "citations"
            /\ local' = [local EXCEPT !.resp = nj.result]
            /\ stages' = Append(stages, [stage |-> "quality", risk_level |-> nj.result.risk_level])
    /\ nj' = NoRun
    /\ UNCHANGED <<NOVA_API_KEY, _metrics, log, assessments, served, message, response, novaCalls>>

\* final_assessment(), its last two lines: the citation lookup and model_copy.
\* importable: app.rag.rag imports; lookup: what retrieve_top_k does for each query.
FinalCitations ==
    /\ pc = "citations"
    /\ \E importable \in BOOLEAN,
          lookup \in [Range(Prefix(local.resp.sources_query, 3)) -> LookupOutcomes] :
        LET c == _get_citations_for_assessment(local.resp.sources_query, importable, lookup)
        IN  IF c.ok
            THEN /\ pc' = "guardrail"
                 /\ local' = [local EXCEPT !.model_result = [local.resp EXCEPT !.citations = c.value]]
                 /\ stages' = Append(stages, [stage |-> "citations",
                                              risk_level |-> local.resp.risk_level])
            ELSE /\ pc' = "fallback"
                 /\ local' = Raise(local, c.error)
                 /\ UNCHANGED stages
    /\ UNCHANGED <<NOVA_API_KEY, _metrics, log, assessments, served, message, response, nj, novaCalls>>

\* chat(), the rest of its try block: the guardrail, the rendering and
\* add_message(assistant), which succeeds or not (db_asst), leaving its row or not
\* when it raises (kept).
ChatGuardrail ==
    /\ pc = "guardrail"
    /\ \E result \in {apply_guardrails(message, local.model_result)} :
       \E final_markdown \in {render_assessment_markdown(result.assessment,
                                                          result.emergency_message)} :
       LET risk_level == result.assessment.risk_level
           loc1 == [local EXCEPT !.result = result, !.risk_level = risk_level,
                                 !.final_markdown = final_markdown,
                                 !.reply = REPLY_ASSESSMENT]
       IN  /\ stages' = Append(stages, [stage |-> "guardrail", risk_level |-> risk_level])
           /\ \E db_asst \in BOOLEAN :
               IF db_asst
               THEN /\ log' = Append(log, [role |-> "assistant", content |-> REPLY_ASSESSMENT])
                    /\ local' = loc1
                    /\ pc' = "done"
                    /\ response' = ChatResponse(REPLY_ASSESSMENT, Null, final_markdown, risk_level)
               ELSE /\ pc' = "fallback"
                    /\ local' = Raise(loc1, "OperationalError: add_message")
                    /\ \E kept \in BOOLEAN :
                        log' = IF kept
                               THEN Append(log, [role |-> "assistant", content |-> REPLY_ASSESSMENT])
                               ELSE log
                    /\ UNCHANGED response
    /\ UNCHANGED <<NOVA_API_KEY, _metrics, assessments, served, message, nj, novaCalls>>

\* chat(), its except block and return: the fallback reply. Its own
\* add_message(assistant) succeeds or not (db_asst), leaving its row or not when it
\* raises (kept).
ChatFallback ==
    /\ pc = "fallback"
    /\ \E db_asst \in BOOLEAN :
        LET loc1 == [local EXCEPT !.reply = REPLY_FALLBACK, !.final_markdown = FALLBACK_MARKDOWN]
        IN  IF db_asst
            THEN /\ log' = Append(log, [role |-> "assistant", content |-> REPLY_FALLBACK])
                 /\ local' = [loc1 EXCEPT !.risk_level = "ROUTINE"]
                 /\ stages' = Append(stages, [stage |-> "fallback", risk_level |-> "ROUTINE"])
                 /\ pc' = "done"
                 /\ response' = ChatResponse(REPLY_FALLBACK, Null, FALLBACK_MARKDOWN, "ROUTINE")
            ELSE /\ local' = loc1
                 /\ pc' = "error"
                 /\ response' = InternalServerError
                 /\ \E kept \in BOOLEAN :
                     log' = IF kept
                            THEN Append(log, [role |-> "assistant", content |-> REPLY_FALLBACK])
                            ELSE log
                 /\ UNCHANGED stages
    /\ UNCHANGED <<NOVA_API_KEY, _metrics, assessments, served, message, nj, novaCalls>>

\* The process starts: NOVA_API_KEY is read from the environment, the tables are empty.
Init ==
    /\ NOVA_API_KEY \in {"", "key"}
    /\ _metrics = InitMetrics
    /\ log = <<>>
    /\ assessments = <<>>
    /\ served = 0
    /\ pc = "idle"
    /\ message = ""
    /\ local = InitLocal
    /\ response = NoResponse
    /\ nj = NoRun
    /\ novaCalls = 0
    /\ stages = <<>>

ChatNovaFirst == pc \in {"followups", "final", "quality"} /\ NovaFirst(ChatOutputs)
ChatNovaRepair == pc \in {"followups", "final", "quality"} /\ NovaRepair(ChatOutputs)

Next ==
    \/ ChatBegin
    \/ ChatNovaFirst
    \/ ChatNovaRepair
    \/ ChatFollowups
    \/ FinalGate
    \/ QualityReturn
    \/ FinalCitations
    \/ ChatGuardrail
    \/ ChatFallback

Spec == Init /\ [][Next]_vars

(***************************************************************************)
(* ------- apply_guardrails alone, over every text and assessment -------- *)
(***************************************************************************)
\* The pieces user texts are made of.
GuardFragments == <<"chest", "Chest", " pain", "\npain", "overdose", "mild headache", "no ">>

\* Number of pieces in a user text.
MaxFrags == 2

RECURSIVE TextsOf(_, _)
\* Every concatenation of at most n of the pieces.
TextsOf(frags, n) ==
    IF n = 0 THEN {""}
    ELSE LET shorter == TextsOf(frags, n - 1)
         IN  shorter \cup {t \o frags[k] : t \in shorter, k \in 1..Len(frags)}

GuardTexts == TextsOf(GuardFragments, MaxFrags)

\* The assessments the guardrail is applied to: every risk level, with and without
\* red flags of the model's own.
GuardAssessments == {ValidateFinalAssessment(JsonMembers[k]).value : k \in {"R", "E", "M", "U", "G"}}

\* check_red_flags(T) for every text T, computed once.
RedFlagHits == [t \in GuardTexts |-> check_red_flags(t)]

InitGuard ==
    /\ NOVA_API_KEY = ""
    /\ _metrics = InitMetrics
    /\ log = <<>>
    /\ assessments = <<>>
    /\ served = 0
    /\ pc = "guard"
    /\ message \in GuardTexts
    /\ local \in {[InitLocal EXCEPT !.model_result = a] : a \in GuardAssessments}
    /\ response = NoResponse
    /\ nj = NoRun
    /\ novaCalls = 0
    /\ stages = <<>>

\* result = apply_guardrails(user_text, model_result)
GuardApply ==
    /\ pc = "guard"
    /\ pc' = "guarded"
    /\ \E result \in {apply_guardrails(message, local.model_result)} :
        local' = [local EXCEPT !.result = result]
    /\ UNCHANGED <<NOVA_API_KEY, _metrics, log, assessments, served, message, response, nj, novaCalls, stages>>

SpecGuard == InitGuard /\ [][GuardApply]_vars

(***************************************************************************)
(* ------- invoke_nova_json alone, over every raw model output ----------- *)
(***************************************************************************)
\* The pieces raw model outputs are made of.
RawFragments == <<"{R}", "{Q}", "^^^json\n{R}\n^^^", "^^^", "x ", "{">>

\* Number of pieces in a raw model output.
MaxRawFrags == 2

RawTexts == TextsOf(RawFragments, MaxRawFrags)

\* How a provider request may end: any raw text, no content, or an exception.
NovaOutputs ==
    {ProviderText(t) : t \in RawTexts}
    \cup {ProviderText(None),
          ProviderError("Request timed out."),
          ProviderError("Error code: 400 - response_format is not supported by this model")}

\* The runs started: final_assessment's and generate_followups's.
NovaRuns ==
    {StartRun(<<[role |-> "user", content |-> "I have a mild headache"]>>,
              "FinalAssessmentResponse", "I have a mild headache"),
     StartRun(<<[role |-> "user", content |-> "I have a mild headache"]>>,
              "FollowUpsResponse", None)}

InitNova ==
    /\ NOVA_API_KEY \in {"", "key"}
    /\ _metrics = InitMetrics
    /\ log = <<>>
    /\ assessments = <<>>
    /\ served = 0
    /\ pc = "nova"
    /\ message = ""
    /\ local = InitLocal
    /\ response = NoResponse
    /\ nj \in NovaRuns
    /\ novaCalls = 0
    /\ stages = <<>>

RunFirst == pc = "nova" /\ NovaFirst(NovaOutputs)
RunRepair == pc = "nova" /\ NovaRepair(NovaOutputs)

NextNova ==
    \/ RunFirst
    \/ RunRepair

SpecNova == InitNova /\ [][NextNova]_vars

(***************************************************************************)
(* ------------------------------ properties ----------------------------- *)
(***************************************************************************)
\* check_red_flags(request.message), for each message served.
CheckedFlags == [m \in ChatMessages |-> check_red_flags(m)]

\* C1: every response to a request whose message either detector reports as a red
\* flag (check_red_flags hits, or detect_red_flags reports self-harm or an emergency)
\* carries risk_level EMERGENCY, on any turn and whatever the model did.
C1_RedFlagMessageIsEmergency ==
    (/\ pc = "done"
     /\ \/ CheckedFlags[message].hit
        \/ DetectedFlags[message].is_self_harm
        \/ DetectedFlags[message].is_emergency_medical)
        => response.risk_level = "EMERGENCY"

\* C2: for every text T and assessment A, if check_red_flags(T) hits then
\* apply_guardrails(T, A) has risk_level EMERGENCY and the fixed emergency
\* disclaimer as emergency_message, whatever A.risk_level is.
C2_RedFlagForcesEmergency ==
    (pc = "guarded" /\ RedFlagHits[message].hit)
        => /\ local.result.assessment.risk_level = "EMERGENCY"
           /\ local.result.emergency_message = EMERGENCY_DISCLAIMER

\* A text with a red flag was guarded while the model said SELF_CARE.
C2_Witness ==
    /\ pc = "guarded"
    /\ RedFlagHits[message].hit
    /\ local.model_result.risk_level = "SELF_CARE"
    /\ local.result.assessment.risk_level = "EMERGENCY"

\* C3: within one chat turn, once a stage (model assessment, quality regeneration,
\* citations, guardrail) has produced EMERGENCY, the response's risk_level is not
\* lower than EMERGENCY.
C3_EmergencyIsNeverLowered ==
    (pc = "done" /\ \E n \in DOMAIN stages : stages[n].risk_level = "EMERGENCY")
        => response.risk_level = "EMERGENCY"

\* C4: for every text T without a red-flag match and every assessment A,
\* apply_guardrails(T, A) returns A unchanged in every field, emergency_message
\* None and matched_terms [].
C4_NoMatchLeavesAssessment ==
    (pc = "guarded" /\ ~RedFlagHits[message].hit)
        => /\ local.result.assessment = local.model_result
           /\ local.result.emergency_message = None
           /\ local.result.matched_terms = <<>>

\* A text without a red flag was guarded while the model said EMERGENCY.
C4_Witness ==
    /\ pc = "guarded"
    /\ ~RedFlagHits[message].hit
    /\ message # ""
    /\ local.model_result.risk_level = "EMERGENCY"
    /\ local.result.assessment.risk_level = "EMERGENCY"

\* C5: every request whose message makes detect_red_flags report self-harm or an
\* emergency completes without a model invocation, with a response of risk_level
\* EMERGENCY, a non-empty final_markdown and follow_up_questions [].
C5_EarlyExitAnswersEmergency ==
    (/\ pc \in {"done", "error"}
     /\ \/ DetectedFlags[message].is_self_harm
        \/ DetectedFlags[message].is_emergency_medical)
        => /\ novaCalls = 0
           /\ response.status = 200
           /\ response.risk_level = "EMERGENCY"
           /\ response.final_markdown \notin {None, ""}
           /\ response.follow_up_questions = <<>>

\* C6: one run of invoke_nova_json makes at most two invoke_nova calls (at most
\* one repair call) and then is over, having returned a validated object or raised
\* an error; a run that is over makes no further step, one that is not can step.
C6_AtMostOneRepairCall ==
    pc = "nova"
        => /\ nj.calls <= 2
           /\ nj.stage = "first" => nj.calls = 0
           /\ nj.stage = "repair" => nj.calls = 1
           /\ nj.calls = 2 => RunOver(nj)
           /\ nj.stage = "returned" => nj.result # Null
           /\ nj.stage = "raised" => nj.error # None
           /\ RunOver(nj) <=> ~ENABLED NextNova

\* A run returned after its repair call.
C6_Witness == pc = "nova" /\ nj.stage = "returned" /\ nj.calls = 2 /\ nj.repair_raw # None

C8_SecondFailureIsTerminal ==
    (/\ pc = "nova"
     /\ nj.repair_raw # None
     /\ ~parse(nj.response_model, nj.repair_raw).ok)
        => /\ nj.stage = "raised"
           /\ nj.error = SchemaMismatch
           /\ nj.calls = 2
           /\ ~ENABLED NextNova

\* A schema violation first, nothing extracted on repair: the run raised.
C8_Witness ==
    /\ pc = "nova"
    /\ nj.response_model = "FinalAssessmentResponse"
    /\ nj.raw = "{Q}"
    /\ nj.repair_raw = ""
    /\ nj.stage = "raised"
    /\ nj.error = SchemaMismatch

\* C9: on the model path, a failure not recovered in the model layer (provider
\* error, exhausted repair, citation lookup error, persistence error in the try
\* block) ends in a normal response with the fixed disclaimer markdown and
\* risk_level ROUTINE; no technical error reaches the caller.
C9_FailureGivesFallbackResponse ==
    (pc \in {"done", "error"} /\ local.exc # None)
        => response = ChatResponse(REPLY_FALLBACK, Null, FALLBACK_MARKDOWN, "ROUTINE")

\* C10: in every request in which final_assessment returned, the guardrail ran on
\* the request message, the markdown is rendered from the guardrail's output and
\* the response's risk_level is that of the guardrail's output.
C10_ResponseCarriesGuardrailOutput ==
    (pc = "done" /\ local.model_result # Null)
        => /\ local.result # Null
           /\ response.risk_level = local.result.assessment.risk_level
           /\ response.final_markdown =
                  render_assessment_markdown(local.result.assessment,
                                             local.result.emergency_message)

(***************************************************************************)
(* ------- the early-exit gate alone, over every message (main.py) ------- *)
(***************************************************************************)
\* The pieces request messages are made of.
EarlyFragments == <<"hurt myself", "chest pain", "\nSUICIDAL", "Fainting", "mild headache",
                    " and ", "kill", " myself", "\n">>

\* Number of pieces in a request message.
MaxEarlyFrags == 2

EarlyTexts == TextsOf(EarlyFragments, MaxEarlyFrags)

\* flags = detect_red_flags(request.message) for every message, computed once.
EarlyFlags == [t \in EarlyTexts |-> detect_red_flags(t)]

InitEarly ==
    /\ NOVA_API_KEY = ""
    /\ _metrics = InitMetrics
    /\ log = <<>>
    /\ assessments = <<>>
    /\ served = 0
    /\ pc = "early"
    /\ message \in EarlyTexts
    /\ local = InitLocal
    /\ response = NoResponse
    /\ nj = NoRun
    /\ novaCalls = 0
    /\ stages = <<>>

\* The early exit of chat(): the fixed response is built from the flags,
\* validated and rendered; persistence is left to ChatBegin.
EarlyRespond ==
    /\ pc = "early"
    /\ EarlyExitGate(EarlyFlags[message])
    /\ pc' = "exited"
    /\ \E final_markdown \in
            {render_assessment_markdown(
                 ValidateFinalAssessment(build_emergency_response(EarlyFlags[message])).value,
                 None)} :
        local' = [local EXCEPT !.flags = EarlyFlags[message],
                               !.red_flag_hits = Len(EarlyFlags[message].matched_terms),
                               !.final_markdown = final_markdown,
                               !.reply = REPLY_ASSESSMENT,
                               !.risk_level = "EMERGENCY"]
    /\ UNCHANGED <<NOVA_API_KEY, _metrics, log, assessments, served, message, response, nj, novaCalls, stages>>

SpecEarly == InitEarly /\ [][EarlyRespond]_vars

\* C11: the markdown of every early-exit response to a message flagged as
\* self-harm (flagged as an emergency too or not) contains "988", and the
\* markdown of every early-exit response contains "911" or "emergency department".
C11_EarlyExitNamesLifelines ==
    pc = "exited"
        => /\ local.flags.is_self_harm => Contains(local.final_markdown, "988")
           /\ \/ Contains(local.final_markdown, "911")
              \/ Contains(local.final_markdown, "emergency department")

\* A message flagged both ways was answered through the early exit.
C11_Witness ==
    /\ pc = "exited"
    /\ message = "Fainting\nSUICIDAL"
    /\ local.flags.is_self_harm
    /\ local.flags.is_emergency_medical
    /\ Contains(local.final_markdown, "988")

(***************************************************************************)
(* ------------- check_red_flags alone, over every text ------------------ *)
(***************************************************************************)
\* The pieces texts are made of: phrases in several casings, the halves of a
\* phrase, other pieces of whitespace between them, and text with no phrase.
FlagFragments == <<"chest", "CHEST", " pain", "\nPain", "Overdosed", "mild headache",
                   " ", "\n", "cold sweats">>

\* Number of pieces in a text.
MaxFlagFrags == 2

FlagTexts == TextsOf(FlagFragments, MaxFlagFrags)

InitFlags ==
    /\ NOVA_API_KEY = ""
    /\ _metrics = InitMetrics
    /\ log = <<>>
    /\ assessments = <<>>
    /\ served = 0
    /\ pc = "flags"
    /\ message \in FlagTexts
    /\ local = InitLocal
    /\ response = NoResponse
    /\ nj = NoRun
    /\ novaCalls = 0
    /\ stages = <<>>

\* m = check_red_flags(user_text)
FlagsCheck ==
    /\ pc = "flags"
    /\ pc' = "flagged"
    /\ \E m \in {check_red_flags(message)} :
        local' = [local EXCEPT !.result = m]
    /\ UNCHANGED <<NOVA_API_KEY, _metrics, log, assessments, served, message, response, nj, novaCalls, stages>>

SpecFlags == InitFlags /\ [][FlagsCheck]_vars

\* C12: check_red_flags(text).hit is true exactly when the text, whatever its
\* letter casing, contains a configured keyword or matches a configured pattern;
\* on a hit matched_terms is non-empty and holds no label twice; with no phrase
\* present (empty and whitespace-only text included) the result is (false, []).
C12_HitIffPhrasePresent ==
    pc = "flagged"
        => \E present \in
                {\/ \E n \in 1..Len(_ALL_KEYWORDS) : Contains(Lower(message), _ALL_KEYWORDS[n])
                 \/ \E n \in 1..Len(_PATTERNS) : Search(_PATTERNS[n].pat, message)} :
              /\ local.result.hit <=> present
              /\ local.result.hit
                    => /\ Len(local.result.matched_terms) > 0
                       /\ \A i, j \in 1..Len(local.result.matched_terms) :
                             local.result.matched_terms[i] = local.result.matched_terms[j] => i = j
              /\ ~present => local.result = [hit |-> FALSE, matched_terms |-> <<>>]

\* A phrase written in capitals across a line break was reported, under one label.
C12_Witness ==
    /\ pc = "flagged"
    /\ message = "CHEST\nPain"
    /\ local.result = [hit |-> TRUE, matched_terms |-> <<"chest pain">>]

(***************************************************************************)
(* ---- extraction and first pass over syntactically valid JSON documents - *)
(***************************************************************************)
\* The pieces the string values of a document are made of.
PayloadFragments == <<"^^^", "json\n", "see {x} ok", "{", "}", "a">>

\* Number of pieces in a string value.
MaxPayloadFrags == 3

PayloadTexts == TextsOf(PayloadFragments, MaxPayloadFrags)

\* Syntactically valid JSON documents: an object of a schema-conforming assessment
\* (R), of conforming follow-ups (Q) or of a summary that is too short (T), as
\* written or with a string value, with or without white space inside the braces.
JsonDocuments ==
    {"{" \o w \o c \o p \o w \o "}" :
        w \in {"", "\n"},
        c \in {"R", "Q", "T"},
        p \in {""} \cup {Quote \o t \o Quote : t \in PayloadTexts}}

InitJson ==
    /\ NOVA_API_KEY = "key"
    /\ _metrics = InitMetrics
    /\ log = <<>>
    /\ assessments = <<>>
    /\ served = 0
    /\ pc = "json"
    /\ message \in JsonDocuments
    /\ local = InitLocal
    /\ response = NoResponse
    /\ nj \in NovaRuns
    /\ novaCalls = 0
    /\ stages = <<>>

\* text = extract_json_from_text(raw) in invoke_nova_json and
\* cleaned = extract_json_from_text(text_to_parse) in parse(text): the first pass
\* extracts twice.
JsonExtract ==
    /\ pc = "json"
    /\ pc' = "extracted"
    /\ \E text \in {extract_json_from_text(message)} :
        local' = [local EXCEPT !.result = [text |-> text,
                                           cleaned |-> extract_json_from_text(text)]]
    /\ UNCHANGED <<NOVA_API_KEY, _metrics, log, assessments, served, message, response, nj, novaCalls, stages>>

\* The first pass of invoke_nova_json on a provider output that is the document.
JsonFirstPass ==
    /\ pc = "extracted"
    /\ pc' = "parsed"
    /\ nj' = invoke_nova_json_first(nj, NOVA_API_KEY # "", ProviderText(message), ProviderText(message))
    /\ novaCalls' = novaCalls + 1
    /\ UNCHANGED <<NOVA_API_KEY, _metrics, log, assessments, served, message, local, response, stages>>

NextJson ==
    \/ JsonExtract
    \/ JsonFirstPass

SpecJson == InitJson /\ [][NextJson]_vars

\* C13: for every string s that is a syntactically valid JSON document, extracting
\* from the extracted text gives the extracted text again:
\* extract(extract(s)) = extract(s).
C13_ExtractIsIdempotentOnJson ==
    (pc \in {"extracted", "parsed"} /\ JsonLoads(message).ok)
        => local.result.cleaned = local.result.text

\* C14: every syntactically valid, schema-conforming JSON string, whatever its
\* string values hold (backtick fences and braces included), passes extraction
\* and validation on the first pass, and the object returned has exactly the
\* fields of the document.
C14_ConformingJsonRoundTrips ==
    (/\ pc = "parsed"
     /\ JsonLoads(message).ok
     /\ ModelValidate(nj.response_model, JsonLoads(message).value).ok)
        => /\ nj.stage = "returned"
           /\ nj.result = ModelValidate(nj.response_model, JsonLoads(message).value).value

\* C15: when the quality gate rejects the validated first assessment,
\* final_assessment starts one more invoke_nova_json run (the one-shot call of
\* repair_final_assessment_for_quality) whose conversation is the latest user
\* text alone, with the same schema; when that run returns, its result is the
\* assessment whatever the quality gate would say of it, and no other
\* regeneration follows.
C15_OneRegenerationUsedAsIs ==
    [][/\ (pc = "final" /\ RunOver(nj) /\ nj.stage = "returned")
            => IF _is_substantive(nj.result)
               THEN pc' = "citations"
               ELSE /\ pc' = "quality"
                    /\ nj' = StartRun(<<[role |-> "user", content |-> Strip(message)]>>,
                                      nj.response_model, None)
       /\ pc' = "quality" => pc \in {"final", "quality"}
       /\ (pc = "quality" /\ RunOver(nj))
            => IF nj.stage = "returned"
               THEN pc' = "citations" /\ local'.resp = nj.result /\ nj' = NoRun
               ELSE pc' = "fallback" /\ nj' = NoRun
      ]_vars

\* The regenerated assessment is as thin as the rejected one and is used.
C15_Witness ==
    /\ pc = "citations"
    /\ Len(stages) = 2
    /\ stages[2].stage = "quality"
    /\ ~_is_substantive(local.resp)

(***************************************************************************)
(* ------------- the quality gate alone, over every assessment ----------- *)
(***************************************************************************)
\* Summaries, each with whether its entries joined by single spaces and
\* lower-cased hold the filler phrase "general guidance provided".
QualitySummaries ==
    {[lines |-> <<"General guidance provided based on description.", "Point 2", "Point 3">>,
      filler |-> TRUE],
     [lines |-> <<"Here is GENERAL", "Guidance", "PROVIDED today.">>, filler |-> TRUE],
     [lines |-> <<"No general guidance", "provided.", "Rest.">>, filler |-> TRUE],
     [lines |-> <<"Likely tension headache.", "Duration unknown.", "Rest and hydrate.">>,
      filler |-> FALSE],
     [lines |-> <<"general guidance", "was provided", "already">>, filler |-> FALSE],
     [lines |-> <<"General  guidance provided", "Point 2", "Point 3">>, filler |-> FALSE]}

\* Most entries in possible_causes and in home_care.
MaxCauses == 3
MaxHomeCare == 4

\* A list of k entries.
Items(k) == [n \in 1..k |-> "item"]

\* The validated assessments the gate is given.
QualityAssessments ==
    {[risk_level |-> r, summary |-> q.lines, possible_causes |-> Items(c),
      home_care |-> Items(h), when_to_seek_care |-> w, red_flags |-> f,
      sources_query |-> <<>>, citations |-> <<>>] :
        r \in RiskLevel, q \in QualitySummaries, c \in 0..MaxCauses, h \in 0..MaxHomeCare,
        w \in {<<>>, <<"now">>}, f \in {<<>>, <<"fever">>}}

InitQuality ==
    /\ NOVA_API_KEY = ""
    /\ _metrics = InitMetrics
    /\ log = <<>>
    /\ assessments = <<>>
    /\ served = 0
    /\ pc = "gate"
    /\ message = ""
    /\ local \in {[InitLocal EXCEPT !.resp = a] : a \in QualityAssessments}
    /\ response = NoResponse
    /\ nj = NoRun
    /\ novaCalls = 0
    /\ stages = <<>>

\* if not _is_substantive(resp):
QualityGate ==
    /\ pc = "gate"
    /\ pc' = "gated"
    /\ local' = [local EXCEPT !.result = [substantive |-> _is_substantive(local.resp)]]
    /\ UNCHANGED <<NOVA_API_KEY, _metrics, log, assessments, served, message, response, nj, novaCalls, stages>>

SpecQuality == InitQuality /\ [][QualityGate]_vars

\* C16: _is_substantive is false exactly when the summary, joined and lower-cased,
\* holds the filler phrase, or possible_causes has fewer than 2 entries, or
\* home_care has fewer than 3; it is true of every other assessment, whatever its
\* risk_level, when_to_seek_care and red_flags.
C16_SubstantiveExactly ==
    pc = "gated"
        => (~local.result.substantive
                <=> \/ \E q \in QualitySummaries : q.lines = local.resp.summary /\ q.filler
                    \/ Len(local.resp.possible_causes) < 2
                    \/ Len(local.resp.home_care) < 3)

\* An assessment with enough entries is rejected for the filler phrase that runs
\* over three summary entries in mixed casing.
C16_Witness ==
    /\ pc = "gated"
    /\ local.resp.summary = <<"Here is GENERAL", "Guidance", "PROVIDED today.">>
    /\ Len(local.resp.possible_causes) = 3
    /\ Len(local.resp.home_care) = 4
    /\ ~local.result.substantive

\* C17: when the user text has a red-flag match, the assessment apply_guardrails
\* returns has the fixed emergency summary and when_to_seek_care and nothing of the
\* model's, its red_flags are the matched terms followed by the model's red flags
\* not among them, in their order and none twice, its possible_causes, home_care,
\* sources_query and citations are the model's, and the assessment passed in is
\* left as it was.
C17_OverrideReplacesFields ==
    [][(pc' = "guarded" /\ RedFlagHits[message].hit)
          => LET a == local'.result.assessment
                 mine == RedFlagHits[message].matched_terms
                 theirs == SelectSeq(local.model_result.red_flags,
                                     LAMBDA f : f \notin Range(mine))
             IN  /\ a.summary = <<"Your symptoms may indicate a medical emergency.",
                                  "Seek emergency care immediately.">>
                 /\ a.when_to_seek_care =
                        <<"Call emergency services (911) now or go to the nearest emergency department.",
                          "Do not drive yourself if you feel faint or short of breath.">>
                 /\ a.red_flags = mine \o theirs
                 /\ \A i, j \in 1..Len(a.red_flags) : a.red_flags[i] = a.red_flags[j] => i = j
                 /\ a.possible_causes = local.model_result.possible_causes
                 /\ a.home_care = local.model_result.home_care
                 /\ a.sources_query = local.model_result.sources_query
                 /\ a.citations = local.model_result.citations
                 /\ local'.model_result = local.model_result
      ]_vars

\* A matched term the model had listed second comes first, once.
C17_Witness ==
    /\ pc = "guarded"
    /\ message = "overdose"
    /\ local.model_result.red_flags = <<"stiff neck", "overdose">>
    /\ local.result.assessment.red_flags = <<"overdose", "stiff neck">>
    /\ local.result.assessment.summary # local.model_result.summary

\* C18: a citation lookup that fails during final_assessment (index missing,
\* retrieve_top_k or the embedding raising) is caught: no exception of the lookup
\* leaves final_assessment, and the assessment is returned with its other fields
\* intact (and no citation).
C18_CitationFailureIsCaught ==
    /\ \A o \in LookupOutcomes : ~o.ok => local.exc # o.error
    /\ local.model_result # Null
          => \A f \in AssessmentFields \ {"citations"} : local.model_result[f] = local.resp[f]

(***************************************************************************)
(* ------------- invoke_nova of app/llm/bedrock_client.py ---------------- *)
(* One call of invoke_nova: the locals of the function are the record      *)
(* local; slept lists the time.sleep() calls made, errors the exceptions    *)
(* client.converse raised, calls counts the client.converse calls.          *)
(***************************************************************************)
MAX_RETRIES == 3
INITIAL_BACKOFF_SEC == 1

\* Exceptions of client.converse that the except clause catches: time-outs,
\* connection errors and 5xx answers ...
TransientFailures ==
    {[class |-> "BotoCoreError", name |-> "ReadTimeoutError", status |-> 0],
     [class |-> "OSError", name |-> "ConnectionResetError", status |-> 0],
     [class |-> "ClientError", name |-> "InternalServerException", status |-> 500]}

\* ... and rejected or missing credentials.
AuthFailures ==
    {[class |-> "ClientError", name |-> "AccessDeniedException", status |-> 403],
     [class |-> "BotoCoreError", name |-> "NoCredentialsError", status |-> 0]}

\* How one client.converse call may end: a response (its content blocks) or an
\* exception.
ConverseOutcomes ==
    {[kind |-> "response", content_blocks |-> <<>>],
     [kind |-> "response", content_blocks |-> <<[text |-> " Rest and fluids.\n"]>>]}
    \cup {[kind |-> "error", e |-> e] : e \in TransientFailures \cup AuthFailures}

\* The locals at the entry of the loop.
BedrockLocals ==
    [attempt |-> 0, last_error |-> Null, e |-> Null, slept |-> <<>>, errors |-> <<>>,
     calls |-> 0, returned |-> None, raised |-> Null]

\* for attempt in range(MAX_RETRIES): try: client.converse(...) and the reading
\* of the response; o is how the call ends.
bedrock_invoke_nova_try(loc, o) ==
    LET called == [loc EXCEPT !.calls = @ + 1]
    IN  IF o.kind = "response"
        THEN [called EXCEPT !.returned = IF Len(o.content_blocks) = 0 THEN ""
                                         ELSE Strip(o.content_blocks[1].text)]
        ELSE [called EXCEPT !.e = o.e, !.errors = Append(@, o.e)]

\* The handler that sleeps after the last attempt too.
bedrock_invoke_nova_except_SleepLast(loc) ==
    LET caught == [loc EXCEPT !.last_error = loc.e, !.e = Null,
                              !.slept = Append(@, INITIAL_BACKOFF_SEC * (2 ^ loc.attempt))]
    IN  IF loc.attempt < MAX_RETRIES - 1
        THEN [caught EXCEPT !.attempt = @ + 1]
        ELSE [caught EXCEPT !.raised = loc.e]

\* except (ClientError, BotoCoreError, OSError) as e: the backoff or the raise.
bedrock_invoke_nova_except(loc) ==
    LET caught == [loc EXCEPT !.last_error = loc.e, !.e = Null]
    IN  IF loc.attempt < MAX_RETRIES - 1
        THEN [caught EXCEPT !.slept = Append(@, INITIAL_BACKOFF_SEC * (2 ^ loc.attempt)),
                            !.attempt = @ + 1]
        ELSE [caught EXCEPT !.raised = loc.e]

InitBedrock ==
    /\ NOVA_API_KEY = ""
    /\ _metrics = InitMetrics
    /\ log = <<>>
    /\ assessments = <<>>
    /\ served = 0
    /\ pc = "try"
    /\ message = ""
    /\ local = BedrockLocals
    /\ response = NoResponse
    /\ nj = NoRun
    /\ novaCalls = 0
    /\ stages = <<>>

\* One client.converse call: the function returns or control enters the handler.
BedrockTry ==
    /\ pc = "try"
    /\ \E o \in ConverseOutcomes :
        /\ local' = bedrock_invoke_nova_try(local, o)
        /\ pc' = IF o.kind = "response" THEN "returned" ELSE "except"
    /\ UNCHANGED <<NOVA_API_KEY, _metrics, log, assessments, served, message, response, nj, novaCalls, stages>>

\* The handler: sleep and go round the loop, or raise.
BedrockExcept ==
    /\ pc = "except"
    /\ local' = bedrock_invoke_nova_except(local)
    /\ pc' = IF local'.raised = Null THEN "try" ELSE "raised"
    /\ UNCHANGED <<NOVA_API_KEY, _metrics, log, assessments, served, message, response, nj, novaCalls, stages>>

NextBedrock ==
    \/ BedrockTry
    \/ BedrockExcept

SpecBedrock == InitBedrock /\ [][NextBedrock]_vars

C20_AuthFailureIsNotRetried ==
    \A i \in 1..Len(local.errors) :
        local.errors[i] \in AuthFailures
            => /\ i = Len(local.errors)
               /\ local.calls = i
               /\ Len(local.slept) < i
               /\ pc \in {"except", "raised"}
               /\ pc = "raised"
                    => local.raised.class \notin {e.class : e \in TransientFailures}

(***************************************************************************)
(* ----- log_request under concurrent requests (logging_structured.py) ---- *)
(* chat() is a plain def: the framework runs each request on a thread of    *)
(* its pool, and each ends with log_request. A thread runs log_request     *)
(* statement by statement; a statement that updates a counter reads the    *)
(* dictionary and writes it in two steps, with no lock around them. pc[t]  *)
(* is the line thread t is at, local[t] its arguments and the value it     *)
(* has read and not yet written (tmp).                                     *)
(***************************************************************************)
\* Number of requests handled concurrently.
MaxThreads == 2

Threads == 1..MaxThreads

\* The arguments chat() passes on its four paths: early exit, first-turn
\* follow-ups, model assessment, fallback.
LogRequestCalls ==
    {[risk_level |-> "EMERGENCY", red_flag_hits |-> 1, rag_k |-> None, model_tokens_est |-> 60],
     [risk_level |-> None, red_flag_hits |-> 0, rag_k |-> None, model_tokens_est |-> 20],
     [risk_level |-> "ROUTINE", red_flag_hits |-> 0, rag_k |-> "5", model_tokens_est |-> 80],
     [risk_level |-> "ROUTINE", red_flag_hits |-> 0, rag_k |-> None, model_tokens_est |-> 0]}

\* Nothing read yet.
NoValue == -2

\* The first updating statement at or after a line of log_request that the
\* arguments let run: lines 55, 57, 60-61, 63, 65.
RECURSIVE LineFrom(_, _)
LineFrom(line, args) ==
    CASE line = "55" -> "55"
      [] line = "57" -> IF args.red_flag_hits # 0 THEN "57" ELSE LineFrom("60", args)
      [] line = "60" -> IF args.risk_level # None THEN "60" ELSE LineFrom("63", args)
      [] line = "61" -> "61"
      [] line = "63" -> IF args.rag_k # None THEN "63" ELSE LineFrom("65", args)
      [] line = "65" -> IF args.model_tokens_est # 0 THEN "65" ELSE "done"
      [] line = "done" -> "done"

\* The line after an updating statement.
LineAfter(line) ==
    CASE line = "55" -> "57"
      [] line = "57" -> "60"
      [] line = "60" -> "61"
      [] line = "61" -> "63"
      [] line = "63" -> "65"
      [] line = "65" -> "done"

\* x or 0
OrZero(x) == IF x = Absent THEN 0 ELSE x

\* What the statement at a line reads from _metrics.
MetricsRead(line, args, metrics) ==
    CASE line = "55" -> OrZero(metrics.requests_total)
      [] line = "57" -> OrZero(metrics.red_flag_hits_total)
      [] line = "60" -> metrics.by_risk_level[args.risk_level]
      [] line = "61" -> OrZero(metrics.by_risk_level[args.risk_level])
      [] line = "63" -> OrZero(metrics.rag_retrievals_total)
      [] line = "65" -> OrZero(metrics.model_tokens_est_total)

\* _metrics after the statement at a line has written, having read tmp.
MetricsWrite(line, args, tmp, metrics) ==
    CASE line = "55" -> [metrics EXCEPT !.requests_total = tmp + 1]
      [] line = "57" -> [metrics EXCEPT !.red_flag_hits_total = tmp + args.red_flag_hits]
      [] line = "60" -> IF tmp = Absent
                        THEN [metrics EXCEPT !.by_risk_level[args.risk_level] = 0]
                        ELSE metrics
      [] line = "61" -> [metrics EXCEPT !.by_risk_level[args.risk_level] = tmp + 1]
      [] line = "63" -> [metrics EXCEPT !.rag_retrievals_total = tmp + 1]
      [] line = "65" -> [metrics EXCEPT !.model_tokens_est_total = tmp + args.model_tokens_est]

\* log_request run in one piece, one statement after the other.
RECURSIVE log_request(_, _, _)
log_request(line, args, metrics) ==
    IF line = "done" THEN metrics
    ELSE log_request(LineFrom(LineAfter(line), args), args,
                     MetricsWrite(line, args, MetricsRead(line, args, metrics), metrics))

InitThreads ==
    /\ NOVA_API_KEY = ""
    /\ _metrics = InitMetrics
    /\ log = <<>>
    /\ assessments = <<>>
    /\ served = 0
    /\ pc = [t \in Threads |-> "55"]
    /\ message = ""
    /\ local \in [Threads -> {[args |-> a, tmp |-> NoValue] : a \in LogRequestCalls}]
    /\ response = NoResponse
    /\ nj = NoRun
    /\ novaCalls = 0
    /\ stages = <<>>

\* Thread t evaluates the right-hand side of its statement.
LogRequestRead(t) ==
    /\ pc[t] # "done"
    /\ local[t].tmp = NoValue
    /\ local' = [local EXCEPT ![t].tmp = MetricsRead(pc[t], local[t].args, _metrics)]
    /\ UNCHANGED <<NOVA_API_KEY, _metrics, log, assessments, served, pc, message, response, nj,
                   novaCalls, stages>>

\* Thread t stores what it computed from the value read and goes to its next
\* statement.
LogRequestWrite(t) ==
    /\ pc[t] # "done"
    /\ local[t].tmp # NoValue
    /\ _metrics' = MetricsWrite(pc[t], local[t].args, local[t].tmp, _metrics)
    /\ local' = [local EXCEPT ![t].tmp = NoValue]
    /\ pc' = [pc EXCEPT ![t] = LineFrom(LineAfter(pc[t]), local[t].args)]
    /\ UNCHANGED <<NOVA_API_KEY, log, assessments, served, message, response, nj, novaCalls, stages>>

NextThreads ==
    \E t \in Threads :
        \/ LogRequestRead(t)
        \/ LogRequestWrite(t)

SpecThreads == InitThreads /\ [][NextThreads]_vars

\* C21: under every interleaving of the requests handled concurrently, no update
\* of the metrics map is lost: once all have completed, requests_total has grown
\* by their number and by_risk_level by the number of requests that reported each
\* risk level.
C21_NoMetricsUpdateLost ==
    (\A t \in Threads : pc[t] = "done")
        => /\ _metrics.requests_total = MaxThreads
           /\ \A level \in RiskLevel :
                 OrZero(_metrics.by_risk_level[level])
                     = Cardinality({t \in Threads : local[t].args.risk_level = level})

(***************************************************************************)
(* ------ the two red-flag detectors side by side, over every text ------- *)
(***************************************************************************)
\* The pieces texts are made of: terms of either detector and text of neither.
DetectorFragments == <<"overdose", "suicidal", "chest pain", "Chest\npain", "slurred speech",
                       "mild headache", " ", "fainting", "don't want to live">>

\* Number of pieces in a text.
MaxDetectorFrags == 2

DetectorTexts == TextsOf(DetectorFragments, MaxDetectorFrags)

InitDetectors ==
    /\ NOVA_API_KEY = ""
    /\ _metrics = InitMetrics
    /\ log = <<>>
    /\ assessments = <<>>
    /\ served = 0
    /\ pc = "detect"
    /\ message \in DetectorTexts
    /\ local = InitLocal
    /\ response = NoResponse
    /\ nj = NoRun
    /\ novaCalls = 0
    /\ stages = <<>>

\* flags = detect_red_flags(request.message) in chat() and
\* check_red_flags(user_text) in apply_guardrails, on the same text.
DetectBoth ==
    /\ pc = "detect"
    /\ pc' = "detected"
    /\ \E flags \in {detect_red_flags(message)} :
       \E m \in {check_red_flags(message)} :
        local' = [local EXCEPT !.flags = flags, !.result = m]
    /\ UNCHANGED <<NOVA_API_KEY, _metrics, log, assessments, served, message, response, nj,
                   novaCalls, stages>>

SpecDetectors == InitDetectors /\ [][DetectBoth]_vars

\* C22: the detector run before the model (detect_red_flags, the early-exit gate)
\* and the one run after it in the guardrail (check_red_flags) are one classifier:
\* for every user text the early-exit gate fires if and only if check_red_flags
\* reports a hit.
C22_DetectorsAgree ==
    pc = "detected" => (EarlyExitGate(local.flags) <=> local.result.hit)

(***************************************************************************)
(* ------------- extract_json_from_text alone, over every text ----------- *)
(***************************************************************************)
\* The pieces texts are made of: fences, the json tag, another tag, an object and
\* the closing of a block, lone braces, prose.
ExtractFragments == <<"^^^", "json\n", "py\n", "{R}\n^^^", "{R}", "}", "{", "x ">>

\* Number of pieces in a text.
MaxExtractFrags == 3

ExtractTexts == TextsOf(ExtractFragments, MaxExtractFrags)

InitExtract ==
    /\ NOVA_API_KEY = ""
    /\ _metrics = InitMetrics
    /\ log = <<>>
    /\ assessments = <<>>
    /\ served = 0
    /\ pc = "extract"
    /\ message \in ExtractTexts
    /\ local = InitLocal
    /\ response = NoResponse
    /\ nj = NoRun
    /\ novaCalls = 0
    /\ stages = <<>>

\* cleaned = extract_json_from_text(text_to_parse)
ExtractOnce ==
    /\ pc = "extract"
    /\ pc' = "extracted"
    /\ local' = [local EXCEPT !.result = [cleaned |-> extract_json_from_text(message)]]
    /\ UNCHANGED <<NOVA_API_KEY, _metrics, log, assessments, served, message, response, nj,
                   novaCalls, stages>>

SpecExtract == InitExtract /\ [][ExtractOnce]_vars

\* Where the language tag of the fence opening at position i of t ends: after
\* "json" in any casing; when any_tag, also after any run of letters that ends its
\* line; at the end of the fence when there is no tag.
TagEnd(t, i, any_tag) ==
    LET letters == {Chr(UpperLetters, n) : n \in 1..26} \cup {Chr(LowerLetters, n) : n \in 1..26}
        word == SkipForward(t, i + 3, letters)
    IN  IF i + 6 <= Len(t) /\ Lower(SubSeq(t, i + 3, i + 6)) = "json" THEN i + 7
        ELSE IF any_tag /\ word > i + 3 /\ word <= Len(t) /\ Chr(t, word) = "\n" THEN word
        ELSE i + 3

\* The three stages as a statement: the trimmed interior of the first fenced
\* block; else the text from the first "{" to the last "}" when the text holds
\* both (and, when in_order, the last "}" is not before the first "{"); else the
\* trimmed text.
StagedExtract(text, any_tag, in_order) ==
    LET t == Strip(text)
        closing(i) == {j \in TagEnd(t, i, any_tag)..Len(t) : OccursAt(Fence, t, j)}
        blocks == {i \in 1..Len(t) : OccursAt(Fence, t, i) /\ closing(i) # {}}
        first == CHOOSE i \in blocks : \A k \in blocks : i <= k
        last == CHOOSE j \in closing(first) : \A k \in closing(first) : j <= k
        open == {i \in 1..Len(t) : Chr(t, i) = "{"}
        close == {i \in 1..Len(t) : Chr(t, i) = "}"}
        lo == CHOOSE i \in open : \A k \in open : i <= k
        hi == CHOOSE i \in close : \A k \in close : i >= k
    IN  IF blocks # {}
        THEN (IF TagEnd(t, first, any_tag) > last - 1 THEN ""
              ELSE Strip(SubSeq(t, TagEnd(t, first, any_tag), last - 1)))
        ELSE IF open # {} /\ close # {} /\ (in_order => lo <= hi)
        THEN (IF lo <= hi THEN SubSeq(t, lo, hi) ELSE "")
        ELSE t

\* C23: extract_json_from_text applies three stages in order, first success wins:
\* (1) when the text holds a fenced code block, with or without a language tag, the
\* trimmed interior of the first such block; (2) otherwise, when the text holds a
\* "{" and a "}", the text from the first "{" to the last "}"; (3) otherwise the
\* trimmed text; the empty string for an empty or whitespace-only text.
C23_ThreeStagesInOrder ==
    pc = "extracted" => local.result.cleaned = StagedExtract(message, TRUE, FALSE)

\* C23 as amended: the tag stage (1) knows is "json" alone, in any casing (any other
\* tag stays in the result as part of the interior), and stage (2) applies only when
\* the last "}" is not before the first "{" (otherwise stage (3) gives the trimmed
\* text).
C23_ThreeStagesJsonTagInOrder ==
    pc = "extracted" => local.result.cleaned = StagedExtract(message, FALSE, TRUE)

\* A block tagged otherwise than json keeps its tag line.
C23_Witness ==
    /\ pc = "extracted"
    /\ message = "^^^py\n{R}\n^^^"
    /\ local.result.cleaned = "py\n{R}"

(***************************************************************************)
(* ---- the same raw text as the first output and as the repair output ---- *)
(***************************************************************************)
\* The pieces of the raw texts: fences, the json tag, objects (conforming R, too
\* short a summary T), an object inside prose, prose.
PassFragments == <<"^^^", "json\n", "{R}", "{T}", "x {R} y", "x ">>

\* Number of pieces in a raw text.
MaxPassFrags == 3

PassTexts == TextsOf(PassFragments, MaxPassFrags)

InitPasses ==
    /\ NOVA_API_KEY = "key"
    /\ _metrics = InitMetrics
    /\ log = <<>>
    /\ assessments = <<>>
    /\ served = 0
    /\ pc = "first"
    /\ message \in PassTexts
    /\ local = InitLocal
    /\ response = NoResponse
    /\ nj \in NovaRuns
    /\ novaCalls = 0
    /\ stages = <<>>

\* A run whose initial call returns the text: raw = invoke_nova(...),
\* text = extract_json_from_text(raw), parse(text).
PassFirst ==
    /\ pc = "first"
    /\ pc' = "repair"
    /\ \E first \in {invoke_nova_json_first(nj, NOVA_API_KEY # "", ProviderText(message),
                                            ProviderText(message))} :
        local' = [local EXCEPT !.result = [first |-> first]]
    /\ UNCHANGED <<NOVA_API_KEY, _metrics, log, assessments, served, message, response, nj,
                   novaCalls, stages>>

\* A run whose initial call returned prose and whose repair call returns the text:
\* repair_raw = invoke_nova(...), parse(repair_raw).
PassRepair ==
    /\ pc = "repair"
    /\ pc' = "compared"
    /\ \E failed \in {invoke_nova_json_first(nj, NOVA_API_KEY # "", ProviderText("x"),
                                             ProviderText("x"))} :
       \E repair \in {invoke_nova_json_repair(failed, NOVA_API_KEY # "", ProviderText(message),
                                              ProviderText(message))} :
        local' = [local EXCEPT !.result = [first |-> local.result.first, repair |-> repair]]
    /\ UNCHANGED <<NOVA_API_KEY, _metrics, log, assessments, served, message, response, nj,
                   novaCalls, stages>>

NextPasses ==
    \/ PassFirst
    \/ PassRepair

SpecPasses == InitPasses /\ [][NextPasses]_vars

\* C24: the repair call's output goes through the same extraction and validation
\* as the first call's output: a raw text is accepted (the run returns a validated
\* object) as the first output if and only if it is accepted as the repair output,
\* and both give the same object.
C24_RepairAcceptsWhatFirstAccepts ==
    pc = "compared"
        => /\ (local.result.first.stage = "returned") <=> (local.result.repair.stage = "returned")
           /\ local.result.first.result = local.result.repair.result

(***************************************************************************)
(* ------------- invoke_nova alone, over every provider outcome ---------- *)
(***************************************************************************)
\* Exceptions of client.chat.completions.create that name response_format, and
\* others.
FormatErrors ==
    {"Error code: 400 - response_format is not supported by this model",
     "Unknown parameter: 'RESPONSE_FORMAT'"}
OtherErrors == {"Request timed out.", "Error code: 429 - rate limit exceeded"}

\* How one provider request may end.
InvokeOutcomes ==
    {ProviderText(t) : t \in {"{R}", " x\n", "", None}}
    \cup {ProviderError(m) : m \in FormatErrors \cup OtherErrors}

InitInvoke ==
    /\ NOVA_API_KEY \in {"", "key"}
    /\ _metrics = InitMetrics
    /\ log = <<>>
    /\ assessments = <<>>
    /\ served = 0
    /\ pc = "invoke"
    /\ message = ""
    /\ local \in [response_format : {None, JSON_OBJECT}, o1 : InvokeOutcomes,
                  o2 : InvokeOutcomes, result : {Null}]
    /\ response = NoResponse
    /\ nj = NoRun
    /\ novaCalls = 0
    /\ stages = <<>>

\* One call of invoke_nova(messages, response_format=...); o2 is how the second
\* request would end.
InvokeOnce ==
    /\ pc = "invoke"
    /\ pc' = "invoked"
    /\ local' = [local EXCEPT !.result = invoke_nova(NOVA_API_KEY # "", local.response_format,
                                                     local.o1, local.o2)]
    /\ novaCalls' = novaCalls + 1
    /\ UNCHANGED <<NOVA_API_KEY, _metrics, log, assessments, served, message, response, nj, stages>>

SpecInvoke == InitInvoke /\ [][InvokeOnce]_vars

\* What invoke_nova gives when the provider request deciding it ends as o, after n
\* requests.
OutcomeOf(o, n) ==
    IF o.kind = "text"
    THEN [ok |-> TRUE, text |-> Strip(IF o.content = None THEN "" ELSE o.content), requests |-> n]
    ELSE [ok |-> FALSE, error |-> o.message, requests |-> n]

\* C25: capability fallback in invoke_nova: when a provider call made with
\* strict-JSON mode fails with the signal that response_format is unsupported,
\* exactly one further provider call is made and its outcome (text or error) is the
\* outcome of invoke_nova; a failure of any other kind, or any failure of a call
\* made without response_format, propagates with no further provider call.
C25_CapabilityFallbackOnce ==
    (pc = "invoked" /\ NOVA_API_KEY # "" /\ local.o1.kind = "error")
        => IF local.response_format # None /\ local.o1.message \in FormatErrors
           THEN local.result = OutcomeOf(local.o2, 2)
           ELSE local.result = OutcomeOf(local.o1, 1)

\* The strict-JSON request was refused for response_format and the second request
\* timed out.
C25_Witness ==
    /\ pc = "invoked"
    /\ NOVA_API_KEY # ""
    /\ local.response_format = JSON_OBJECT
    /\ local.o1 = ProviderError("Unknown parameter: 'RESPONSE_FORMAT'")
    /\ local.o2 = ProviderError("Request timed out.")
    /\ local.result = [ok |-> FALSE, error |-> "Request timed out.", requests |-> 2]

\* C26: every structured assessment that reaches the renderer (from the model path,
\* after the guardrail's override or pass-through, and from the early-exit path)
\* has a summary of at least 3 and at most 6 entries.
C26_RenderedSummaryHasThreeToSix ==
    /\ (pc = "done" /\ local.result # Null)
            => Len(local.result.assessment.summary) \in 3..6
    /\ (pc = "done" /\ local.flags # Null /\ EarlyExitGate(local.flags))
            => Len(build_emergency_response(local.flags).summary) \in 3..6

(***************************************************************************)
(* ---- the citations of final_assessment, over model outputs and lookups - *)
(***************************************************************************)
\* The validated model outputs the lookup follows: with and without
\* sources_query, with and without citations of the model's own.
CiteAssessments ==
    {ValidateFinalAssessment(JsonMembers[k]).value : k \in {"R", "M", "U", "C", "G"}}
    \cup {[ValidateFinalAssessment(JsonMembers[k]).value EXCEPT !.citations = <<Cite1>>] :
            k \in {"R", "M"}}

\* The user texts of the turn: without and with a red flag.
CiteMessages == {"I have a mild headache", "I think I overdosed on medication"}

InitCite ==
    /\ NOVA_API_KEY = "key"
    /\ _metrics = InitMetrics
    /\ log = <<>>
    /\ assessments = <<>>
    /\ served = 0
    /\ pc = "citations"
    /\ message \in CiteMessages
    /\ \E resp \in CiteAssessments :
        local \in [resp : {resp}, importable : BOOLEAN,
                   lookup : [Range(Prefix(resp.sources_query, 3)) -> LookupOutcomes],
                   model_result : {Null}, result : {Null}, exc : {None}]
    /\ response = NoResponse
    /\ nj = NoRun
    /\ novaCalls = 0
    /\ stages = <<>>

\* The last two lines of final_assessment, keeping the model's citations when the
\* lookup finds none.
CiteOnce_KeepModel ==
    /\ pc = "citations"
    /\ LET c == _get_citations_for_assessment(local.resp.sources_query, local.importable,
                                              local.lookup)
       IN  IF c.ok
           THEN /\ pc' = "guardrail"
                /\ local' = [local EXCEPT !.model_result =
                                 IF c.value = <<>> THEN local.resp
                                 ELSE [local.resp EXCEPT !.citations = c.value]]
           ELSE /\ pc' = "raised"
                /\ local' = [local EXCEPT !.exc = c.error]
    /\ UNCHANGED <<NOVA_API_KEY, _metrics, log, assessments, served, message, response, nj,
                   novaCalls, stages>>

\* The last two lines of final_assessment:
\* citations = _get_citations_for_assessment(resp.sources_query) and
\* resp.model_copy(update={"citations": citations}).
CiteOnce ==
    /\ pc = "citations"
    /\ LET c == _get_citations_for_assessment(local.resp.sources_query, local.importable,
                                              local.lookup)
       IN  IF c.ok
           THEN /\ pc' = "guardrail"
                /\ local' = [local EXCEPT !.model_result = [local.resp EXCEPT !.citations = c.value]]
           ELSE /\ pc' = "raised"
                /\ local' = [local EXCEPT !.exc = c.error]
    /\ UNCHANGED <<NOVA_API_KEY, _metrics, log, assessments, served, message, response, nj,
                   novaCalls, stages>>

\* guardrail_result = apply_guardrails(request.message, model_result): the
\* assessment that is rendered.
CiteGuard ==
    /\ pc = "guardrail"
    /\ pc' = "rendered"
    /\ \E result \in {apply_guardrails(message, local.model_result)} :
        local' = [local EXCEPT !.result = result]
    /\ UNCHANGED <<NOVA_API_KEY, _metrics, log, assessments, served, message, response, nj,
                   novaCalls, stages>>

NextCite ==
    \/ CiteOnce
    \/ CiteGuard

SpecCite == InitCite /\ [][NextCite]_vars

\* The chunks the lookup returned for the queries of the assessment.
ChunksFound(loc) ==
    UNION {Range(loc.lookup[q].chunks) : q \in {q \in DOMAIN loc.lookup : loc.lookup[q].ok}}

\* C27: citations are never model-generated: for every assessment returned by
\* final_assessment, and therefore every assessment rendered, the citations list
\* is exactly what the citation lookup returned for that assessment's sources_query
\* (deduplicated, at most 15); any citations present in the model's own output are
\* discarded, and the list is empty when sources_query is empty.
C27_CitationsComeFromLookup ==
    pc \in {"guardrail", "rendered"}
        => LET cited == local.model_result.citations
               found == _get_citations_for_assessment(local.resp.sources_query,
                                                      local.importable, local.lookup)
           IN  /\ found.ok /\ cited = found.value
               /\ \A n \in DOMAIN cited : \E c \in ChunksFound(local) : cited[n] = CitationOf(c)
               /\ local.importable
                    => \A c \in ChunksFound(local) : \E n \in DOMAIN cited : cited[n] = CitationOf(c)
               /\ \A n, k \in DOMAIN cited : cited[n] = cited[k] => n = k
               /\ Len(cited) <= 15
               /\ local.resp.sources_query = <<>> => cited = <<>>
               /\ pc = "rendered" => local.result.assessment.citations = cited

\* The model's own citation was dropped for the one of the lookup, and the
\* assessment was rendered after the guardrail's override.
C27_Witness ==
    /\ pc = "rendered"
    /\ local.resp.citations = <<Cite1>>
    /\ local.resp.sources_query # <<>>
    /\ local.result.assessment.citations = <<CitationOf(Chunk1)>>
    /\ local.result.assessment.risk_level = "EMERGENCY"
    /\ local.resp.risk_level = "ROUTINE"

\* C28: repair-protocol events are emitted one per state transition and in order:
\* a run of invoke_nova_json whose first output validates emits no parse event; a
\* run whose first output fails emits nova_parse_failed_first_pass exactly once
\* before the repair call; when the repair call returns, exactly one of
\* nova_parse_repaired (if and only if the run returns an object) or
\* nova_parse_failed_final (if and only if the run raises the schema-mismatch
\* error) follows; neither of the latter is ever emitted without a preceding
\* first-pass-failure event.
C28_ParseEventsFollowTransitions ==
    [][/\ nj.events = <<>>
            => nj'.events \in {<<>>, <<"nova_parse_failed_first_pass">>}
       /\ (nj.stage = "first" /\ nj'.stage = "returned") => nj'.events = <<>>
       /\ (nj.stage = "first" /\ nj'.stage = "repair")
            => nj'.events = <<"nova_parse_failed_first_pass">> /\ nj'.calls = 1
       /\ (nj'.events = <<"nova_parse_failed_first_pass">> /\ nj.events = <<>>)
            => nj.stage = "first" /\ nj'.stage = "repair"
       /\ nj.stage = "repair"
            => /\ nj.events = <<"nova_parse_failed_first_pass">>
               /\ nj'.events \in {nj.events,
                                  Append(nj.events, "nova_parse_repaired"),
                                  Append(nj.events, "nova_parse_failed_final")}
               /\ nj'.events = Append(nj.events, "nova_parse_repaired")
                    <=> nj'.stage = "returned"
               /\ nj'.events = Append(nj.events, "nova_parse_failed_final")
                    <=> (nj'.stage = "raised" /\ nj'.error = SchemaMismatch)
               /\ nj'.events = nj.events
                    <=> (nj'.stage = "raised" /\ nj'.error # SchemaMismatch)
       /\ RunOver(nj) => nj'.events = nj.events
      ]_vars

\* A run failed its first pass and was repaired.
C28_Witness ==
    /\ pc = "nova"
    /\ nj.stage = "returned"
    /\ nj.calls = 2
    /\ nj.events = <<"nova_parse_failed_first_pass", "nova_parse_repaired">>

(***************************************************************************)
(* ---- final_assessment alone, from its call to its return or exception -- *)
(***************************************************************************)
\* The conversation final_assessment is called with: a first turn, and the
\* request message as the latest user turn.
FinalMessages(m) ==
    <<[role |-> "user", content |-> "I have a mild headache"],
      [role |-> "assistant", content |-> REPLY_FOLLOWUPS],
      [role |-> "user", content |-> m]>>

\* chat() at model_result = final_assessment(messages), on a second turn.
InitFinal ==
    /\ NOVA_API_KEY \in {"", "key"}
    /\ _metrics = InitMetrics
    /\ message \in {m \in ChatMessages : ~EarlyExitGate(DetectedFlags[m])}
    /\ log = FinalMessages(message)
    /\ assessments = <<>>
    /\ served = 1
    /\ pc = "final"
    /\ local = [InitLocal EXCEPT !.flags = DetectedFlags[message],
                                 !.messages = FinalMessages(message),
                                 !.last_user = _last_user_content(FinalMessages(message))]
    /\ response = NoResponse
    /\ nj = StartRun(_build_final_assessment_messages(FinalMessages(message)),
                     "FinalAssessmentResponse", _last_user_content(FinalMessages(message)))
    /\ novaCalls = 0
    /\ stages = <<>>

NextFinal ==
    \/ ChatNovaFirst
    \/ ChatNovaRepair
    \/ FinalGate
    \/ QualityReturn
    \/ FinalCitations

SpecFinal == InitFinal /\ [][NextFinal]_vars

\* final_assessment is running.
InFinalAssessment == pc \in {"final", "quality", "citations"}

\* The steps final_assessment has left at most: 2 invoke_nova calls and the return
\* of each of the two invoke_nova_json runs, then the citation lookup.
StepsLeft ==
    LET run == IF nj.stage = "first" THEN 3 ELSE IF nj.stage = "repair" THEN 2 ELSE 1
    IN  IF pc = "final" THEN 4 + run
        ELSE IF pc = "quality" THEN 1 + run
        ELSE IF pc = "citations" THEN 1
        ELSE 0

\* The guards of the steps of final_assessment: an invoke_nova call of the run in
\* progress, the return from a run that is over, the citation lookup.
CanStep ==
    \/ pc \in {"final", "quality"} /\ nj.stage \in {"first", "repair"}
    \/ pc \in {"final", "quality"} /\ RunOver(nj)
    \/ pc = "citations"

\* C29: one call of final_assessment performs at most 4 invoke_nova calls in total
\* (first call, its repair, quality regeneration, the regeneration's repair), each
\* of at most 2 provider requests, hence at most 8 provider requests; it always
\* terminates with an assessment or an exception: while it runs a step can be
\* taken (each provider request ends with a text or an exception), and every step
\* brings it nearer to its end.
C29_FinalAssessmentIsBounded ==
    /\ [](InFinalAssessment
            => /\ novaCalls <= 4
               /\ pc = "final" => novaCalls = nj.calls /\ nj.calls <= 2
               /\ pc = "quality" => nj.calls <= 2 /\ novaCalls - nj.calls \in 1..2
               /\ nj.requests <= 2 * nj.calls
               /\ CanStep)
    /\ [][InFinalAssessment => StepsLeft' < StepsLeft]_vars
    /\ [][pc' \in {"guardrail", "fallback"}
            => IF pc' = "guardrail" THEN local'.model_result # Null
               ELSE local'.exc # None]_vars

\* Four invoke_nova calls were made, the last with the capability fallback.
C29_Witness ==
    /\ pc = "quality"
    /\ novaCalls = 4
    /\ nj.calls = 2
    /\ nj.requests >= 3
    /\ RunOver(nj)

\* C30: every POST /chat request that returns a response appends to the
\* conversation log exactly one user message (the request message, before any
\* detection or model call) and then exactly one assistant message, on every path
\* (early exit, first-turn follow-ups, model assessment, ROUTINE fallback); the log
\* is never rewritten or shortened: what the request read and appended at its start
\* stays the beginning of the log.
C30_OneUserThenOneAssistant ==
    /\ pc = "done"
        => /\ local.messages # <<>>
           /\ local.messages[Len(local.messages)] = [role |-> "user", content |-> message]
           /\ log = Append(local.messages, [role |-> "assistant", content |-> response.reply])
    /\ /\ Len(local.messages) <= Len(log)
       /\ SubSeq(log, 1, Len(local.messages)) = local.messages

=============================================================================
